---- MODULE Spec2Model ----
(***************************************************************************)
(* Equipment Manager: the in-browser equipment system                      *)
(* (standalone-equipment-system.js), the API client with its local cache   *)
(* (api-client.js) and the serverless handlers over the characters table   *)
(* (api/sync, api/characters, scripts/init-db.sql).                        *)
(*                                                                         *)
(* Eleven specifications share the variables:                              *)
(*   Spec        one EquipmentSystem instance driven by its handlers       *)
(*   BagSpec     the belt of an EquipmentSystem and its bag selector       *)
(*   GoldSpec    the gold tracker of an EquipmentSystem, and selling       *)
(*   TimingSpec  items added to an EquipmentSystem at any pace             *)
(*   SyncSpec    the /api/sync handler serving one request at a time       *)
(*   ClientSpec  two API clients, their caches, and the handlers they call *)
(*   OfflineSpec one API client while the backend goes out of reach         *)
(*   RecoverySpec  the same client with the calls in progress going on      *)
(*   RoomSpec    /api/sync and /api/characters serving two rooms            *)
(*   StoreSpec   the two handlers serving overlapping requests of one room  *)
(*   DeleteSpec  two API clients, one of which deletes characters           *)
(* JavaScript arrays are sequences; an array index i of the source is the  *)
(* sequence index i + 1 (see At).                                          *)
(***************************************************************************)
EXTENDS Integers, Sequences, FiniteSets, TLC

VARIABLES
    \* EquipmentSystem
    equipped,      \* this.data.equipped
    inventory,     \* this.data.inventory: category -> array of items
    searchTerm,    \* this.data.searchTerm
    weaponModals,  \* the weapons of the weapon-slot dialogs that are open
    selectedBag,   \* this.data.selectedBag
    gold,          \* this.data.gold
    last,          \* history: the gold or equip operation that led to this state, if
                   \* one did; whether a gold operation asked for more of its
                   \* currency, and how an equip ended
    clock,         \* the last value Date.now() returned to addNewItem
    \* the server
    db,            \* the rows of table characters
    now,           \* the value the next NOW() returns; every writing statement advances it
    hs,            \* the invocations of the /api/sync handler, one per caller
    \* the API clients
    cl             \* per client: its localStorage entry, backendAvailable, the call in progress

eqVars == <<equipped, inventory, searchTerm, weaponModals, selectedBag, gold, last, clock>>

srvVars == <<db, now, hs>>

vars ==
    <<equipped, inventory, searchTerm, weaponModals, selectedBag, gold, last, clock,
      db, now, hs, cl>>

(***************************************************************************)
(* Bounds of the model.                                                    *)
(***************************************************************************)
\* items ever added to the inventory (each add reads Date.now() once)
MaxAdds == 3

\* JavaScript null / undefined / a missing property, where a string is expected
Null == "null"

Truthy(v) == v # Null

\* null where an item object is expected (an empty slot)
NoItem == [null |-> TRUE]

IsItem(slot) == slot # NoItem

At(arr, i) == arr[i + 1]

SetAt(arr, i, v) == [arr EXCEPT ![i + 1] = v]

\* Array.prototype.findIndex, given for each element whether the callback accepts
\* it: the lowest index of an accepted element, or -1
FindIndex(accepted) ==
    IF \E k \in 1..Len(accepted) : accepted[k]
    THEN (CHOOSE k \in 1..Len(accepted) :
            accepted[k] /\ \A j \in 1..(k - 1) : ~accepted[j]) - 1
    ELSE -1

\* slot => !slot, over the slots of an array
IsEmptySlot(arr) == [k \in 1..Len(arr) |-> ~IsItem(arr[k])]

\* Array.prototype.splice(index, 1)
Splice1(arr, i) == SubSeq(arr, 1, i) \o SubSeq(arr, i + 2, Len(arr))

(***************************************************************************)
(* EquipmentSystem: static tables                                          *)
(***************************************************************************)
CategoryNames == <<"Gear", "Utility", "Quest", "Crafting", "Personal">>

itemCategories ==
    [Gear     |-> {"weapon", "armor", "potion", "flask", "ammunition"},
     Utility  |-> {"adventure", "tool", "food", "map", "camp"},
     Quest    |-> {"npc-item", "evidence", "literature", "magical"},
     Crafting |-> {"materials", "components"},
     Personal |-> {"personal"}]

getItemCategory(itemType) ==
    IF \E k \in 1..Len(CategoryNames) : itemType \in itemCategories[CategoryNames[k]]
    THEN CategoryNames[CHOOSE k \in 1..Len(CategoryNames) :
                          itemType \in itemCategories[CategoryNames[k]]]
    ELSE "Personal"

\* the item types, names and search terms the model's user enters
\* (a part of itemTypes: two slot-bound types and two belt types in two categories)
AddTypes == {"weapon", "armor", "potion", "food"}

\* strings are sequences of characters so that toLowerCase and includes are computed
Names == {<<"a">>, <<"B", "a">>}

\* the description typed into the form; '' is stored as null and both are falsy
Descriptions == {<<>>}

SearchTerms == {<<>>, <<"b">>, <<"A">>}

LowerChar(ch) == CASE ch = "A" -> "a" [] ch = "B" -> "b" [] OTHER -> ch

toLowerCase(s) == [k \in 1..Len(s) |-> LowerChar(s[k])]

\* String.prototype.includes
includes(s, t) ==
    \E k \in 1..(Len(s) - Len(t) + 1) : SubSeq(s, k, k + Len(t) - 1) = t

(***************************************************************************)
(* EquipmentSystem: state                                                  *)
(***************************************************************************)
getDefaultEquipped ==
    [primaryWeapon   |-> NoItem,
     secondaryWeapon |-> NoItem,
     armor           |-> NoItem,
     clothing        |-> NoItem,
     jewelry         |-> <<NoItem, NoItem, NoItem>>,
     belt            |-> <<NoItem, NoItem, NoItem, NoItem, NoItem>>]

getDefaultInventory ==
    [Gear |-> <<>>, Utility |-> <<>>, Quest |-> <<>>, Crafting |-> <<>>, Personal |-> <<>>]

getDefaultGold ==
    [coins |-> 0, pouches |-> 0, chest |-> 0, equippedPouches |-> 0, banks |-> <<>>]

\* no gold or equip operation led to the state
NoLast == [op |-> "none", type |-> "none", increase |-> FALSE, outcome |-> "none"]

EquipInit ==
    /\ equipped = getDefaultEquipped
    /\ inventory = getDefaultInventory
    /\ searchTerm = <<>>
    /\ weaponModals = {}
    /\ selectedBag = "Standard Backpack"
    /\ gold = getDefaultGold
    /\ last = NoLast
    /\ clock = 0

HasId(slot, item) == IsItem(slot) /\ slot.id = item.id

\* slot => slot && slot.id === item.id, over the slots of an array
IsSlotOf(arr, item) == [k \in 1..Len(arr) |-> HasId(arr[k], item)]

\* Array.prototype.some with that callback
SomeSlotOf(arr, item) == \E k \in 1..Len(arr) : IsSlotOf(arr, item)[k]

isItemEquipped(eq, item, type) ==
    IF type = "weapon"
    THEN HasId(eq.primaryWeapon, item) \/ HasId(eq.secondaryWeapon, item)
    ELSE IF type = "armor" THEN HasId(eq.armor, item)
    ELSE IF type = "clothing" THEN HasId(eq.clothing, item)
    ELSE IF type = "jewelry" THEN SomeSlotOf(eq.jewelry, item)
    ELSE SomeSlotOf(eq.belt, item)

(***************************************************************************)
(* Rendering: the cards of the inventory section.  A card carries the      *)
(* item's type, the category and the index under which the item was        *)
(* rendered; its buttons pass these three to the handlers.                 *)
(***************************************************************************)
MatchesSearch(item, term) ==
    \/ includes(toLowerCase(item.name), toLowerCase(term))
    \/ (item.description # <<>>
        /\ includes(toLowerCase(item.description), toLowerCase(term)))

filteredItems(inv, term, category) ==
    IF term # <<>>
    THEN SelectSeq(inv[category], LAMBDA item : MatchesSearch(item, term))
    ELSE inv[category]

renderCompactItemCard(eq, item, category, index) ==
    [id |-> item.id, type |-> item.type, category |-> category, index |-> index,
     isEquipped |-> isItemEquipped(eq, item, item.type)]

renderInventoryCategories(eq, inv, term) ==
    UNION {{renderCompactItemCard(eq, filteredItems(inv, term, CategoryNames[c])[k],
                                  CategoryNames[c], k - 1) :
              k \in 1..Len(filteredItems(inv, term, CategoryNames[c]))} :
           c \in 1..Len(CategoryNames)}

Cards == renderInventoryCategories(equipped, inventory, searchTerm)

(***************************************************************************)
(* Handlers                                                                *)
(***************************************************************************)
\* addNewItem: the id is Date.now(); here the reading is later than the last one
addNewItem(type, name, description) ==
    /\ clock < MaxAdds
    /\ clock' = clock + 1
    /\ inventory' =
         [inventory EXCEPT ![getItemCategory(type)] =
            Append(@, [name |-> name, type |-> type,
                       description |-> description, id |-> clock + 1])]
    /\ UNCHANGED <<equipped, searchTerm, weaponModals>>
    /\ UNCHANGED <<selectedBag, gold, srvVars, cl>>
    /\ last' = NoLast

\* addNewItem: the id is Date.now(), which is the last reading or a later one;
\* elapsed is the number of milliseconds since the last reading
addNewItemAt(type, name, description, elapsed) ==
    /\ clock + elapsed <= MaxAdds
    /\ Len(inventory.Gear) + Len(inventory.Utility) + Len(inventory.Quest)
         + Len(inventory.Crafting) + Len(inventory.Personal) < MaxAdds
    /\ clock' = clock + elapsed
    /\ inventory' =
         [inventory EXCEPT ![getItemCategory(type)] =
            Append(@, [name |-> name, type |-> type,
                       description |-> description, id |-> clock + elapsed])]
    /\ UNCHANGED <<equipped, searchTerm, weaponModals>>
    /\ UNCHANGED <<selectedBag, gold, srvVars, cl>>
    /\ last' = NoLast

updateSearch(term) ==
    /\ searchTerm' = term
    /\ UNCHANGED <<equipped, inventory, weaponModals, clock>>
    /\ UNCHANGED <<selectedBag, gold, srvVars, cl>>
    /\ last' = NoLast

\* an equipItem that replaces the armor worn
equipItemReplacesArmor(eq, item, type) ==
    IF isItemEquipped(eq, item, type) THEN eq
    ELSE IF type = "armor" THEN [eq EXCEPT !.armor = item]
    ELSE eq

\* the equipped state equipItem leaves (the weapon branch only opens the dialog)
equipItemResult(eq, item, type) ==
    IF isItemEquipped(eq, item, type) THEN eq
    ELSE IF type = "weapon" THEN eq
    ELSE IF type = "jewelry"
    THEN LET emptySlot == FindIndex(IsEmptySlot(eq.jewelry))
         IN IF emptySlot # -1
            THEN [eq EXCEPT !.jewelry = SetAt(@, emptySlot, item)]
            ELSE eq
    ELSE IF type = "armor"
    THEN IF IsItem(eq.armor) THEN eq ELSE [eq EXCEPT !.armor = item]
    ELSE IF type = "clothing"
    THEN IF IsItem(eq.clothing) THEN eq ELSE [eq EXCEPT !.clothing = item]
    ELSE LET emptySlot == FindIndex(IsEmptySlot(eq.belt))
         IN IF emptySlot # -1
            THEN [eq EXCEPT !.belt = SetAt(@, emptySlot, item)]
            ELSE eq

\* how equipItem ends: with an alert and a return, with the slot dialog, or
\* with the item in a slot
equipItemOutcome(eq, item, type) ==
    IF isItemEquipped(eq, item, type) THEN "rejected"
    ELSE IF type = "weapon" THEN "dialog"
    ELSE IF type = "jewelry"
    THEN IF FindIndex(IsEmptySlot(eq.jewelry)) # -1 THEN "equipped" ELSE "rejected"
    ELSE IF type = "armor" THEN IF IsItem(eq.armor) THEN "rejected" ELSE "equipped"
    ELSE IF type = "clothing" THEN IF IsItem(eq.clothing) THEN "rejected" ELSE "equipped"
    ELSE IF FindIndex(IsEmptySlot(eq.belt)) # -1 THEN "equipped" ELSE "rejected"

equipItem(type, category, index) ==
    LET item == At(inventory[category], index)
    IN /\ equipped' = equipItemResult(equipped, item, type)
       /\ weaponModals' =
            IF ~isItemEquipped(equipped, item, type) /\ type = "weapon"
            THEN weaponModals \cup {item}
            ELSE weaponModals
       /\ UNCHANGED <<inventory, searchTerm, clock>>
       /\ UNCHANGED <<selectedBag, gold, srvVars, cl>>
       /\ last' = [NoLast EXCEPT !.op = "equipItem",
                                 !.outcome = equipItemOutcome(equipped, item, type)]

equipWeaponToSlotResult(eq, slot, weapon) ==
    IF isItemEquipped(eq, weapon, "weapon") THEN eq
    ELSE IF IsItem(eq[slot]) THEN eq
    ELSE [eq EXCEPT ![slot] = weapon]

\* how equipWeaponToSlot ends: with an alert and a return, or with the weapon
\* in the slot
equipWeaponToSlotOutcome(eq, slot, weapon) ==
    IF isItemEquipped(eq, weapon, "weapon") THEN "rejected"
    ELSE IF IsItem(eq[slot]) THEN "rejected"
    ELSE "equipped"

\* a click on a slot button of an open weapon dialog, which then closes
equipWeaponToSlot(slot, weapon) ==
    /\ weapon \in weaponModals
    /\ equipped' = equipWeaponToSlotResult(equipped, slot, weapon)
    /\ weaponModals' = weaponModals \ {weapon}
    /\ UNCHANGED <<inventory, searchTerm, clock>>
    /\ UNCHANGED <<selectedBag, gold, srvVars, cl>>
    /\ last' = [NoLast EXCEPT !.op = "equipWeaponToSlot",
                              !.outcome = equipWeaponToSlotOutcome(equipped, slot, weapon)]

\* Cancel or the close button of a weapon dialog
closeModal(weapon) ==
    /\ weapon \in weaponModals
    /\ weaponModals' = weaponModals \ {weapon}
    /\ UNCHANGED <<equipped, inventory, searchTerm, clock>>
    /\ UNCHANGED <<selectedBag, gold, srvVars, cl>>
    /\ last' = NoLast

unequipItemResult(eq, item, type) ==
    IF type = "weapon"
    THEN [eq EXCEPT
            !.primaryWeapon = IF HasId(@, item) THEN NoItem ELSE @,
            !.secondaryWeapon = IF HasId(@, item) THEN NoItem ELSE @]
    ELSE IF type = "armor" THEN [eq EXCEPT !.armor = NoItem]
    ELSE IF type = "clothing" THEN [eq EXCEPT !.clothing = NoItem]
    ELSE IF type = "jewelry"
    THEN LET slotIndex == FindIndex(IsSlotOf(eq.jewelry, item))
         IN IF slotIndex # -1 THEN [eq EXCEPT !.jewelry = SetAt(@, slotIndex, NoItem)] ELSE eq
    ELSE LET slotIndex == FindIndex(IsSlotOf(eq.belt, item))
         IN IF slotIndex # -1 THEN [eq EXCEPT !.belt = SetAt(@, slotIndex, NoItem)] ELSE eq

unequipItem(type, category, index) ==
    /\ equipped' = unequipItemResult(equipped, At(inventory[category], index), type)
    /\ UNCHANGED <<inventory, searchTerm, weaponModals, clock>>
    /\ UNCHANGED <<selectedBag, gold, srvVars, cl>>
    /\ last' = NoLast

unequipSpecificItem(slot) ==
    /\ equipped' = IF IsItem(equipped[slot]) THEN [equipped EXCEPT ![slot] = NoItem]
                   ELSE equipped
    /\ UNCHANGED <<inventory, searchTerm, weaponModals, clock>>
    /\ UNCHANGED <<selectedBag, gold, srvVars, cl>>
    /\ last' = NoLast

unequipJewelry(index) ==
    /\ equipped' = IF IsItem(At(equipped.jewelry, index))
                   THEN [equipped EXCEPT !.jewelry = SetAt(@, index, NoItem)]
                   ELSE equipped
    /\ UNCHANGED <<inventory, searchTerm, weaponModals, clock>>
    /\ UNCHANGED <<selectedBag, gold, srvVars, cl>>
    /\ last' = NoLast

unequipBeltItem(index) ==
    /\ equipped' = IF IsItem(At(equipped.belt, index))
                   THEN [equipped EXCEPT !.belt = SetAt(@, index, NoItem)]
                   ELSE equipped
    /\ UNCHANGED <<inventory, searchTerm, weaponModals, clock>>
    /\ UNCHANGED <<selectedBag, gold, srvVars, cl>>
    /\ last' = NoLast

(***************************************************************************)
(* EquipmentSystem: encumbrance, bags, dropping and selling                *)
(***************************************************************************)
\* encumbranceWeights of the item types the model uses
encumbranceWeights ==
    [weapon |-> 3, armor |-> 10, clothing |-> 3, camp |-> 2, potion |-> 1, food |-> 1]

\* this.encumbranceWeights[item.type] || 1
weightOf(type) ==
    IF type \in DOMAIN encumbranceWeights THEN encumbranceWeights[type] ELSE 1

BagNames ==
    {"Standard Backpack", "Adventurer's Backpack", "Warrior's Backpack",
     "Arcane Satchel", "Tinker's Pack"}

bagTypes ==
    [bagName \in BagNames |->
       CASE bagName = "Standard Backpack" -> [capacity |-> 30, consumableSlots |-> 3]
         [] bagName = "Adventurer's Backpack" -> [capacity |-> 45, consumableSlots |-> 2]
         [] bagName = "Warrior's Backpack" -> [capacity |-> 26, consumableSlots |-> 6]
         [] bagName = "Arcane Satchel" -> [capacity |-> 22, consumableSlots |-> 8]
         [] bagName = "Tinker's Pack" -> [capacity |-> 20, consumableSlots |-> 12]]

\* the weight of the items of one category that are not equipped
RECURSIVE categoryWeight(_, _)
categoryWeight(eq, categoryItems) ==
    IF categoryItems = <<>> THEN 0
    ELSE LET item == Head(categoryItems)
         IN (IF ~isItemEquipped(eq, item, item.type) THEN weightOf(item.type) ELSE 0)
            + categoryWeight(eq, Tail(categoryItems))

RECURSIVE weightUpTo(_, _, _)
weightUpTo(eq, inv, c) ==
    IF c = 0 THEN 0
    ELSE weightUpTo(eq, inv, c - 1) + categoryWeight(eq, inv[CategoryNames[c]])

calculateEncumbrance(eq, inv) == weightUpTo(eq, inv, Len(CategoryNames))

autoUnequipItem(eq, item) ==
    IF item.type = "weapon"
    THEN LET e1 == IF HasId(eq.primaryWeapon, item)
                   THEN [eq EXCEPT !.primaryWeapon = NoItem]
                   ELSE eq
         IN IF HasId(e1.secondaryWeapon, item)
            THEN [e1 EXCEPT !.secondaryWeapon = NoItem]
            ELSE e1
    ELSE IF item.type = "armor" THEN [eq EXCEPT !.armor = NoItem]
    ELSE IF item.type = "clothing" THEN [eq EXCEPT !.clothing = NoItem]
    ELSE IF item.type = "jewelry"
    THEN LET slotIndex == FindIndex(IsSlotOf(eq.jewelry, item))
         IN IF slotIndex # -1
            THEN [eq EXCEPT !.jewelry = SetAt(@, slotIndex, NoItem)]
            ELSE eq
    ELSE LET slotIndex == FindIndex(IsSlotOf(eq.belt, item))
         IN IF slotIndex # -1
            THEN [eq EXCEPT !.belt = SetAt(@, slotIndex, NoItem)]
            ELSE eq

\* dropItem; confirmed is the answer to the confirm() dialog
dropItem(category, index, confirmed) ==
    LET item == At(inventory[category], index)
    IN /\ equipped' = IF confirmed THEN autoUnequipItem(equipped, item) ELSE equipped
       /\ inventory' = IF confirmed
                       THEN [inventory EXCEPT ![category] = Splice1(@, index)]
                       ELSE inventory
       /\ UNCHANGED <<searchTerm, weaponModals, selectedBag, gold, clock>>
       /\ UNCHANGED <<srvVars, cl>>
       /\ last' = NoLast

\* Array(n).fill(null)
NullArray(n) == [k \in 1..n |-> NoItem]

Min(a, b) == IF a < b THEN a ELSE b

\* the belt changeBagType leaves: the new array is created first, and the
\* copy loop then reads the slots of a slice of that new array
changeBagTypeBelt(belt, bagName) ==
    LET newBag == bagTypes[bagName]
        fresh == NullArray(newBag.consumableSlots)
        currentBelt == fresh
    IN [k \in 1..Len(fresh) |->
          IF k <= Min(newBag.consumableSlots, Len(currentBelt))
          THEN currentBelt[k]
          ELSE fresh[k]]

changeBagType(bagName) ==
    /\ equipped' = [equipped EXCEPT !.belt = changeBagTypeBelt(@, bagName)]
    /\ selectedBag' = bagName
    /\ UNCHANGED <<inventory, searchTerm, weaponModals, gold, clock>>
    /\ UNCHANGED <<srvVars, cl>>
    /\ last' = NoLast

(***************************************************************************)
(* EquipmentSystem: gold                                                   *)
(***************************************************************************)
\* the most banks the model opens
MaxBanks == 1

\* the most chests the model puts into one bank
MaxBankChests == 1

\* what prompt() returns: null on Cancel, else the text typed
Cancelled == [cancelled |-> TRUE, text |-> <<>>]

Typed(text) == [cancelled |-> FALSE, text |-> text]

Digits == <<"0", "1", "2", "3", "4", "5", "6", "7", "8", "9">>

IsDigit(ch) == \E d \in 1..Len(Digits) : Digits[d] = ch

DigitValue(ch) == (CHOOSE d \in 1..Len(Digits) : Digits[d] = ch) - 1

\* the length of the longest prefix of digits
RECURSIVE DigitPrefix(_)
DigitPrefix(text) ==
    IF text # <<>> /\ IsDigit(Head(text)) THEN 1 + DigitPrefix(Tail(text)) ELSE 0

\* the value of a sequence of digits
RECURSIVE DecimalValue(_)
DecimalValue(digits) ==
    IF digits = <<>> THEN 0
    ELSE 10 * DecimalValue(SubSeq(digits, 1, Len(digits) - 1))
         + DigitValue(digits[Len(digits)])

NaN == [nan |-> TRUE, value |-> 0]

\* parseInt(text): an optional sign, then the longest prefix of digits
parseInt(text) ==
    LET negative == text # <<>> /\ Head(text) = "-"
        rest == IF negative THEN Tail(text) ELSE text
        n == DigitPrefix(rest)
    IN IF n = 0 THEN NaN
       ELSE [nan |-> FALSE,
             value |-> (IF negative THEN -1 ELSE 1) * DecimalValue(SubSeq(rest, 1, n))]

\* isNaN(text): the whole text, converted to a number, is NaN
isNaN(text) ==
    LET negative == text # <<>> /\ Head(text) = "-"
        rest == IF negative THEN Tail(text) ELSE text
        n == DigitPrefix(rest)
        fraction == SubSeq(rest, n + 2, Len(rest))
    IN ~ \/ text = <<>>
         \/ n > 0 /\ n = Len(rest)
         \/ /\ n < Len(rest)
            /\ rest[n + 1] = "."
            /\ DigitPrefix(fraction) = Len(fraction)
            /\ n + Len(fraction) > 0

\* goldAmount !== null && !isNaN(goldAmount) && parseInt(goldAmount) >= 0
sellAccepted(answer) ==
    /\ ~answer.cancelled
    /\ ~isNaN(answer.text)
    /\ ~parseInt(answer.text).nan
    /\ parseInt(answer.text).value >= 0

\* sellItem's conversion with chests that pile up
sellGoldPilesChests(g, amount) ==
    [g EXCEPT !.coins = (g.coins + amount) % 10,
              !.pouches = (g.pouches + ((g.coins + amount) \div 10)) % 10,
              !.chest = g.chest + ((g.pouches + ((g.coins + amount) \div 10)) \div 10)]

\* the conversion of sellItem: coins to pouches, pouches to the chest
sellGold(g, amount) ==
    LET currentGold == g.coins + amount
        extraPouches == currentGold \div 10
        totalPouches == g.pouches + extraPouches
        extraChests == totalPouches \div 10
    IN [g EXCEPT !.coins = currentGold % 10,
                 !.pouches = totalPouches % 10,
                 !.chest = Min(1, g.chest + extraChests)]

sellItem(category, index, answer) ==
    LET item == At(inventory[category], index)
        amount == parseInt(answer.text).value
    IN IF sellAccepted(answer)
       THEN /\ equipped' = autoUnequipItem(equipped, item)
            /\ gold' = sellGold(gold, amount)
            /\ inventory' = [inventory EXCEPT ![category] = Splice1(@, index)]
            /\ last' = [op |-> "sellItem", type |-> "coins", increase |-> TRUE,
                        outcome |-> "none"]
            /\ UNCHANGED <<searchTerm, weaponModals, selectedBag, clock>>
            /\ UNCHANGED <<srvVars, cl>>
       ELSE /\ last' = NoLast
            /\ UNCHANGED <<equipped, inventory, searchTerm, weaponModals, selectedBag,
                           gold, clock>>
            /\ UNCHANGED <<srvVars, cl>>

GoldTypes == {"coins", "pouches", "chest"}

\* the number of circles renderGoldCircles draws for a type
goldMax == [coins |-> 10, pouches |-> 10, chest |-> 1]

\* the data-amount values of the circles of a type
goldCircles(type) == {i + 1 : i \in 0..(goldMax[type] - 1)}

\* conversions that leave the tenth coin in place
convertGoldPouchesOnly(g, type) ==
    IF type = "pouches" /\ g.pouches = 10
    THEN IF g.chest < 1 THEN [g EXCEPT !.pouches = 0, !.chest = 1] ELSE g
    ELSE g

\* the automatic conversions after an increase
convertGold(g, type) ==
    IF type = "coins" /\ g.coins = 10
    THEN IF g.pouches < 10
         THEN [g EXCEPT !.coins = 0, !.pouches = Min(g.pouches + 1, 10)]
         ELSE g
    ELSE IF type = "pouches" /\ g.pouches = 10
    THEN IF g.chest < 1 THEN [g EXCEPT !.pouches = 0, !.chest = 1] ELSE g
    ELSE g

\* "Adjust equipped pouches if necessary"
clampEquippedPouches(g) ==
    IF g.equippedPouches > g.pouches
    THEN [g EXCEPT !.equippedPouches = g.pouches]
    ELSE g

setGoldAmountResult(g, type, amount) ==
    clampEquippedPouches(
      IF amount <= g[type]
      THEN [g EXCEPT ![type] = amount - 1]
      ELSE convertGold([g EXCEPT ![type] = amount], type))

setGoldAmount(type, amount) ==
    /\ gold' = setGoldAmountResult(gold, type, amount)
    /\ last' = [op |-> "setGoldAmount", type |-> type, increase |-> amount > gold[type],
                outcome |-> "none"]
    /\ UNCHANGED <<equipped, inventory, searchTerm, weaponModals, selectedBag, clock>>
    /\ UNCHANGED <<srvVars, cl>>

adjustEquippedPouches(change) ==
    LET newAmount == gold.equippedPouches + change
    IN /\ gold' = IF newAmount >= 0 /\ newAmount <= 2 /\ newAmount <= gold.pouches
                  THEN [gold EXCEPT !.equippedPouches = newAmount]
                  ELSE gold
       /\ last' = NoLast
       /\ UNCHANGED <<equipped, inventory, searchTerm, weaponModals, selectedBag, clock>>
       /\ UNCHANGED <<srvVars, cl>>

addBank ==
    /\ Len(gold.banks) < MaxBanks
    /\ gold' = [gold EXCEPT !.banks = Append(@, [location |-> "", chests |-> 0])]
    /\ last' = NoLast
    /\ UNCHANGED <<equipped, inventory, searchTerm, weaponModals, selectedBag, clock>>
    /\ UNCHANGED <<srvVars, cl>>

removeBank(index) ==
    /\ gold' = [gold EXCEPT !.banks = Splice1(@, index)]
    /\ last' = NoLast
    /\ UNCHANGED <<equipped, inventory, searchTerm, weaponModals, selectedBag, clock>>
    /\ UNCHANGED <<srvVars, cl>>

adjustBankChests(index, change) ==
    LET newAmount == At(gold.banks, index).chests + change
    IN /\ newAmount <= MaxBankChests
       /\ gold' = IF newAmount >= 0
                  THEN [gold EXCEPT !.banks[index + 1].chests = newAmount]
                  ELSE gold
       /\ last' = NoLast
       /\ UNCHANGED <<equipped, inventory, searchTerm, weaponModals, selectedBag, clock>>
       /\ UNCHANGED <<srvVars, cl>>

(***************************************************************************)
(* The characters table (scripts/init-db.sql) and the server's clock       *)
(***************************************************************************)
\* the largest lastModified a client-side snapshot carries
MaxT == 2

\* the last value of NOW() at which the model lets a statement write
MaxNow == 2

Rooms == {"r1"}

Chars == {"c1", "c2"}

\* the name and data a local snapshot carries (Null: the property is missing)
Payloads ==
    {[name |-> "n1", data |-> "d1"], [name |-> "n2", data |-> "d2"],
     [name |-> Null, data |-> "d1"], [name |-> "n1", data |-> Null]}

\* lastModified of a local snapshot; 0 stands for a missing one (both are falsy)
LocalStamps == 0..MaxT

Handlers == {1, 2}

Row(room, ch, name, data, t) ==
    [room_id |-> room, character_id |-> ch, name |-> name,
     equipment_data |-> data, updated_at |-> t]

HasRow(rows, room, ch) == \E r \in rows : r.room_id = room /\ r.character_id = ch

TheRow(rows, room, ch) == CHOOSE r \in rows : r.room_id = room /\ r.character_id = ch

\* variant: the SELECT has no WHERE clause
SelectAllRooms(rows, room) == rows

\* SELECT * FROM characters WHERE room_id = $1
SelectRoom(rows, room) == {r \in rows : r.room_id = room}

\* columns name and equipment_data are NOT NULL
NotNullOk(name, data) == name # Null /\ data # Null

\* UNIQUE(room_id, character_id)
UniqueOk(rows, room, ch) == ~HasRow(rows, room, ch)

\* INSERT INTO characters (...) VALUES ($1, $2, $3, $4, NOW(), NOW())
InsertOk(rows, room, ch, name, data) == NotNullOk(name, data) /\ UniqueOk(rows, room, ch)

Insert(rows, room, ch, name, data, t) == rows \cup {Row(room, ch, name, data, t)}

\* variant: the UPDATE leaves updated_at as it was
UpdateKeepsStamp(rows, room, ch, name, data, t) ==
    {IF r.room_id = room /\ r.character_id = ch
     THEN Row(room, ch, name, data, r.updated_at) ELSE r : r \in rows}

\* UPDATE characters SET name = $3, equipment_data = $4, updated_at = NOW()
\*  WHERE room_id = $1 AND character_id = $2
UpdateOk(rows, room, ch, name, data) == HasRow(rows, room, ch) => NotNullOk(name, data)

Update(rows, room, ch, name, data, t) ==
    {IF r.room_id = room /\ r.character_id = ch THEN Row(room, ch, name, data, t) ELSE r :
       r \in rows}

\* the character objects the handlers build from rows
CharOf(r) ==
    [id |-> r.character_id, name |-> r.name, data |-> r.equipment_data,
     lastModified |-> r.updated_at]

CharsOf(rows) == {CharOf(r) : r \in rows}

HasChar(chars, ch) == \E x \in chars : x.id = ch

TheChar(chars, ch) == CHOOSE x \in chars : x.id = ch

(***************************************************************************)
(* POST /api/sync: the reconciliation handler.  Every await of the source  *)
(* is a step of its own, so that invocations interleave at the statements  *)
(* of the store and a failed statement leaves the earlier ones committed.  *)
(***************************************************************************)
EmptyObject == "{}"

Entry(ch, p, t) ==
    [characterId |-> ch, name |-> p.name, data |-> p.data, lastModified |-> t]

Entries(ch) == {Entry(ch, p, t) : p \in Payloads, t \in LocalStamps}

\* Object.entries(localData) of the request bodies the model sends: none (no
\* localData, or an empty one), one character, or two.  The characters are
\* interchangeable, so of the two orders of a pair one is enough.
LocalDatas ==
    {<<>>}
    \cup {<<e>> : e \in UNION {Entries(ch) : ch \in Chars}}
    \cup {<<e1, e2>> : e1 \in Entries("c1"), e2 \in Entries("c2")}

RoomIds == Rooms \cup {Null}

EmptySyncResult == [conflicts |-> <<>>, updated |-> <<>>, created |-> <<>>, synced |-> <<>>]

IdleHandler ==
    [pc |-> "idle", roomId |-> Null, localData |-> <<>>, dbCharacters |-> {},
     todo |-> <<>>, syncResult |-> EmptySyncResult, response |-> [status |-> 0],
     \* history, read by the properties only: the rows and the clock when the request
     \* arrived, the statement that threw, and, for a repeated request, the status of
     \* the call it repeats (200 once a call of the request has completed)
     db0 |-> {}, now0 |-> 0, threw |-> Null, retryOf |-> 0]

SyncInit ==
    /\ db = {}
    /\ now = 1
    /\ hs = [h \in Handlers |-> IdleHandler]

\* localChar.lastModified ? new Date(localChar.lastModified) : new Date(0)
LocalModified(e) == IF e.lastModified # 0 THEN e.lastModified ELSE 0

\* variant: the first comparison is >= instead of >
DispositionGe(e, dbCharacters) ==
    IF ~HasChar(dbCharacters, e.characterId) THEN "created"
    ELSE LET dbModified == TheChar(dbCharacters, e.characterId).lastModified
         IN IF LocalModified(e) >= dbModified THEN "updated"
            ELSE IF dbModified > LocalModified(e) THEN "conflict"
            ELSE "synced"

\* variant: a snapshot that differs from the server's stamp is written, older or newer
DispositionLocalWins(e, dbCharacters) ==
    IF ~HasChar(dbCharacters, e.characterId) THEN "created"
    ELSE LET dbModified == TheChar(dbCharacters, e.characterId).lastModified
         IN IF LocalModified(e) # dbModified THEN "updated" ELSE "synced"

\* the branch the loop body takes for one entry of localData
Disposition(e, dbCharacters) ==
    IF ~HasChar(dbCharacters, e.characterId) THEN "created"
    ELSE LET dbModified == TheChar(dbCharacters, e.characterId).lastModified
         IN IF LocalModified(e) > dbModified THEN "updated"
            ELSE IF dbModified > LocalModified(e) THEN "conflict"
            ELSE "synced"

\* localChar.name || 'Unnamed Character'
InsertName(e) == IF Truthy(e.name) THEN e.name ELSE "Unnamed Character"

\* JSON.stringify(localChar.data || {})
InsertData(e) == IF Truthy(e.data) THEN e.data ELSE EmptyObject

\* variant: the response holds the characters of the request only
Ok200LocalOnly(rows, h) ==
    [status |-> 200,
     characters |-> {x \in CharsOf(SelectRoom(rows, h.roomId)) :
                       \E i \in 1..Len(h.localData) : h.localData[i].characterId = x.id},
     syncResult |-> h.syncResult]

Ok200(rows, h) ==
    [status |-> 200, characters |-> CharsOf(SelectRoom(rows, h.roomId)),
     syncResult |-> h.syncResult]

Error400 == [status |-> 400, error |-> "roomId is required"]

Error500 == [status |-> 500, error |-> "Internal server error"]

\* variant: the loop body catches the error of its own statement and goes on
CaughtInLoop(h, stage) ==
    IF h.pc = "loop"
    THEN [h EXCEPT !.todo = Tail(h.todo), !.threw = stage]
    ELSE [h EXCEPT !.pc = "done", !.response = Error500, !.threw = stage]

\* the catch block
Caught(h, stage) == [h EXCEPT !.pc = "done", !.response = Error500, !.threw = stage]

\* the invocation that starts for a request
Received(roomId, localData) ==
    [IdleHandler EXCEPT !.pc = "connect", !.roomId = roomId, !.localData = localData,
                        !.db0 = db, !.now0 = now]

\* a request arrives at an invocation that is free
Receive(h, roomId, localData) ==
    /\ hs[h].pc = "idle"
    /\ hs' = [hs EXCEPT ![h] = Received(roomId, localData)]
    /\ UNCHANGED <<db, now, eqVars, cl>>

\* the caller repeats the request it has the answer of
Retry(h) ==
    /\ hs[h].pc = "done"
    /\ hs' = [hs EXCEPT ![h] =
                [Received(hs[h].roomId, hs[h].localData) EXCEPT
                   !.retryOf = IF hs[h].retryOf = 200 THEN 200 ELSE hs[h].response.status]]
    /\ UNCHANGED <<db, now, eqVars, cl>>

\* the caller has the response; the invocation is over
Finished(h) ==
    /\ hs[h].pc = "done"
    /\ hs' = [hs EXCEPT ![h] = IdleHandler]
    /\ UNCHANGED <<db, now, eqVars, cl>>

\* variant: no roomId check
ConnectedNoCheck(h) ==
    /\ hs[h].pc = "connect"
    /\ hs' = [hs EXCEPT ![h] = [hs[h] EXCEPT !.pc = "read"]]
    /\ UNCHANGED <<db, now, eqVars, cl>>

\* pool.connect() resolved; the roomId check
Connected(h) ==
    /\ hs[h].pc = "connect"
    /\ hs' = [hs EXCEPT ![h] =
                IF ~Truthy(hs[h].roomId)
                THEN [hs[h] EXCEPT !.pc = "done", !.response = Error400]
                ELSE [hs[h] EXCEPT !.pc = "read"]]
    /\ UNCHANGED <<db, now, eqVars, cl>>

\* the first SELECT, and the entries the loop will visit
InitialRead(h) ==
    /\ hs[h].pc = "read"
    /\ hs' = [hs EXCEPT ![h] =
                [hs[h] EXCEPT !.pc = "loop",
                              !.dbCharacters = CharsOf(SelectRoom(db, hs[h].roomId)),
                              !.todo = hs[h].localData]]
    /\ UNCHANGED <<db, now, eqVars, cl>>

\* variant: the synced branch pushes nothing
PushedUnlessSynced(h, list, x) ==
    [h EXCEPT !.todo = Tail(h.todo),
              !.syncResult = IF list = "synced" THEN h.syncResult
                             ELSE [h.syncResult EXCEPT ![list] = Append(h.syncResult[list], x)]]

Pushed(h, list, x) ==
    [h EXCEPT !.todo = Tail(h.todo),
              !.syncResult = [h.syncResult EXCEPT ![list] = Append(h.syncResult[list], x)]]

\* whether the statement the branch issues is accepted by the table's constraints
\* (a rejected statement throws)
StatementOk(rows, room, e, d) ==
    CASE d = "created" -> InsertOk(rows, room, e.characterId, InsertName(e), InsertData(e))
      [] d = "updated" -> UpdateOk(rows, room, e.characterId, e.name, e.data)
      [] OTHER -> TRUE

\* variant: a conflict overwrites the server's record with the local snapshot
StoreAfterLocalWins(rows, room, e, d, t) ==
    CASE d = "created" -> Insert(rows, room, e.characterId, InsertName(e), InsertData(e), t)
      [] d \in {"updated", "conflict"} -> Update(rows, room, e.characterId, e.name, e.data, t)
      [] OTHER -> rows

\* the rows the branch leaves: INSERT for created, UPDATE for updated, no statement
\* for conflict and synced
StoreAfter(rows, room, e, d, t) ==
    CASE d = "created" -> Insert(rows, room, e.characterId, InsertName(e), InsertData(e), t)
      [] d = "updated" -> Update(rows, room, e.characterId, e.name, e.data, t)
      [] OTHER -> rows

\* what the branch pushes on its list of syncResult
Reported(e, d, dbCharacters) ==
    IF d = "conflict"
    THEN [characterId |-> e.characterId, localData |-> e,
          serverData |-> TheChar(dbCharacters, e.characterId)]
    ELSE e.characterId

ListOf(d) == IF d = "conflict" THEN "conflicts" ELSE d

\* one iteration of the loop over Object.entries(localData)
ProcessEntry(h) ==
    /\ hs[h].pc = "loop"
    /\ hs[h].todo # <<>>
    /\ LET e == Head(hs[h].todo)
           d == Disposition(e, hs[h].dbCharacters)
           writes == d \in {"created", "updated"}
       IN IF StatementOk(db, hs[h].roomId, e, d)
          THEN /\ writes => now <= MaxNow
               /\ db' = StoreAfter(db, hs[h].roomId, e, d, now)
               /\ now' = IF writes THEN now + 1 ELSE now
               /\ hs' = [hs EXCEPT ![h] =
                           Pushed(hs[h], ListOf(d), Reported(e, d, hs[h].dbCharacters))]
          ELSE /\ hs' = [hs EXCEPT ![h] = Caught(hs[h], e.characterId)]
               /\ UNCHANGED <<db, now>>
    /\ UNCHANGED <<eqVars, cl>>

\* the loop is over
LoopDone(h) ==
    /\ hs[h].pc = "loop"
    /\ hs[h].todo = <<>>
    /\ hs' = [hs EXCEPT ![h].pc = "final"]
    /\ UNCHANGED <<db, now, eqVars, cl>>

\* the final SELECT and the 200 response
FinalRead(h) ==
    /\ hs[h].pc = "final"
    /\ hs' = [hs EXCEPT ![h] = [hs[h] EXCEPT !.pc = "done", !.response = Ok200(db, hs[h])]]
    /\ UNCHANGED <<db, now, eqVars, cl>>

\* the stage at which the store can fail the invocation: the connection, a SELECT,
\* or the INSERT / UPDATE the next entry needs (Null: none)
FailStage(h) ==
    CASE h.pc = "connect" -> "connect"
      [] h.pc = "read" -> "read"
      [] h.pc = "final" -> "final"
      [] h.pc = "loop" /\ h.todo # <<>>
         /\ Disposition(Head(h.todo), h.dbCharacters) \in {"created", "updated"} ->
           Head(h.todo).characterId
      [] OTHER -> Null

\* the store fails the awaited call: the promise rejects and the catch block answers
StorageFails(h) ==
    /\ FailStage(hs[h]) # Null
    /\ hs' = [hs EXCEPT ![h] = Caught(hs[h], FailStage(hs[h]))]
    /\ UNCHANGED <<db, now, eqVars, cl>>

(***************************************************************************)
(* POST /api/characters (handleCreateCharacter): create or replace          *)
(***************************************************************************)
\* variant: the INSERT has no ON CONFLICT clause and the table no UNIQUE constraint
UpsertAlwaysInserts(rows, room, ch, name, data, t) == Insert(rows, room, ch, name, data, t)

\* INSERT ... ON CONFLICT (room_id, character_id) DO UPDATE SET ..., updated_at = NOW()
Upsert(rows, room, ch, name, data, t) ==
    IF HasRow(rows, room, ch) THEN Update(rows, room, ch, name, data, t)
    ELSE Insert(rows, room, ch, name, data, t)

\* JSON.stringify(data || {})
UpsertData(data) == IF Truthy(data) THEN data ELSE EmptyObject

Created201(r) == [status |-> 201, lastModified |-> r.updated_at]

(***************************************************************************)
(* EquipmentAPIClient: each client has its own localStorage; all clients    *)
(* work on the same room.  A client runs one call at a time.                *)
(***************************************************************************)
Clients == {1, 2}

TheRoom == "r1"

\* the characters and the characterData the clients save
ClientChars == {"c1"}

ClientPayloads == {[name |-> "n1", data |-> "d1"], [name |-> "n2", data |-> "d2"]}

\* what onSyncConflict may return
Decisions == {"server", "local"}

NoRequest == [characterId |-> Null]

IdleClient ==
    [local |-> <<>>,               \* the localStorage entry of the room, in key order
     backendAvailable |-> Null,    \* null, "true" or "false"
     pc |-> "idle",
     request |-> NoRequest,        \* the body of the POST in flight
     response |-> [status |-> 0],  \* the answer to it
     \* of the last syncData call, until it returns: the localData it sent, the
     \* conflicts it was answered and what onSyncConflict returned for each
     sent |-> <<>>, conflicts |-> <<>>, decisions |-> <<>>,
     \* every snapshot a conflicts list answered to this client has named as localData
     reported |-> {},
     \* whether the requests of this client reach the backend; of its last
     \* loadCharacters call, whether the backend was out of reach or marked
     \* unavailable when it was called, and what it returned
     reachable |-> TRUE, calledUnavailable |-> FALSE, returned |-> <<>>,
     \* the characterData of the last saveCharacter call, if the backend was out of
     \* reach when it was made (<<>> otherwise)
     outageSave |-> <<>>,
     \* the characters this client has deleted with deleteCharacter and not saved since
     deleted |-> {}]

ClientInit == cl = [c \in Clients |-> IdleClient]

\* localData[characterId] = entry: an existing key keeps its place
LocalSet(local, entry) ==
    IF \E k \in 1..Len(local) : local[k].characterId = entry.characterId
    THEN [k \in 1..Len(local) |->
            IF local[k].characterId = entry.characterId THEN entry ELSE local[k]]
    ELSE Append(local, entry)

\* a character of a response as an entry of the cache
EntryOf(x) == Entry(x.id, [name |-> x.name, data |-> x.data], x.lastModified)

\* the characters object of the sync response: ORDER BY updated_at DESC
RECURSIVE OrderDesc(_)
OrderDesc(chars) ==
    IF chars = {} THEN <<>>
    ELSE LET m == CHOOSE x \in chars : \A y \in chars : y.lastModified <= x.lastModified
         IN <<EntryOf(m)>> \o OrderDesc(chars \ {m})

checkBackendHealth(c, ok) ==
    /\ cl[c].pc = "idle"
    /\ cl' = [cl EXCEPT ![c].backendAvailable = IF ok THEN "true" ELSE "false"]
    /\ UNCHANGED <<srvVars, eqVars>>

\* saveCharacter up to its fetch: the local write, stamped by the client's clock
saveCharacter(c, ch, characterData, t) ==
    /\ cl[c].pc = "idle"
    /\ cl' = [cl EXCEPT ![c] =
                [cl[c] EXCEPT
                   !.local = LocalSet(cl[c].local, Entry(ch, characterData, t)),
                   !.outageSave = IF cl[c].reachable THEN <<>> ELSE <<characterData>>,
                   !.deleted = cl[c].deleted \ {ch},
                   !.pc = IF cl[c].backendAvailable # "false" THEN "saving" ELSE "idle",
                   !.request = IF cl[c].backendAvailable # "false"
                               THEN [characterId |-> ch, name |-> characterData.name,
                                     data |-> characterData.data]
                               ELSE NoRequest]]
    /\ UNCHANGED <<srvVars, eqVars>>

\* the server handles the POST of client c
handleCreateCharacter(c) ==
    /\ cl[c].pc = "saving"
    /\ LET q == cl[c].request
       IN IF ~Truthy(q.name)
          THEN /\ cl' = [cl EXCEPT ![c] = [cl[c] EXCEPT !.pc = "saved",
                                                      !.response = [status |-> 400]]]
               /\ UNCHANGED <<db, now>>
          ELSE /\ now <= MaxNow
               /\ db' = Upsert(db, TheRoom, q.characterId, q.name, UpsertData(q.data), now)
               /\ now' = now + 1
               /\ cl' = [cl EXCEPT ![c] =
                           [cl[c] EXCEPT !.pc = "saved",
                                         !.response =
                                           Created201(Row(TheRoom, q.characterId, q.name,
                                                          UpsertData(q.data), now))]]
    /\ UNCHANGED <<hs, eqVars>>

\* saveCharacter after its fetch resolved
saveResponse(c) ==
    /\ cl[c].pc = "saved"
    /\ cl' = [cl EXCEPT ![c] =
                IF cl[c].response.status = 201
                THEN [cl[c] EXCEPT
                        !.local = LocalSet(cl[c].local,
                                           Entry(cl[c].request.characterId,
                                                 [name |-> cl[c].request.name,
                                                  data |-> cl[c].request.data],
                                                 cl[c].response.lastModified)),
                        !.pc = "idle", !.request = NoRequest,
                        !.response = [status |-> 0]]
                ELSE [cl[c] EXCEPT !.backendAvailable = "false", !.pc = "idle",
                                   !.request = NoRequest, !.response = [status |-> 0]]]
    /\ UNCHANGED <<srvVars, eqVars>>

\* the fetch of saveCharacter throws (the request never reached the handler)
saveFails(c) ==
    /\ cl[c].pc = "saving"
    /\ cl' = [cl EXCEPT ![c] = [cl[c] EXCEPT !.backendAvailable = "false", !.pc = "idle",
                                             !.request = NoRequest]]
    /\ UNCHANGED <<srvVars, eqVars>>

\* syncData up to its fetch: POST /api/sync with the cache as localData
syncData(c) ==
    /\ cl[c].pc = "idle"
    /\ cl[c].backendAvailable # "false"
    /\ hs[c].pc = "idle"
    /\ hs' = [hs EXCEPT ![c] = Received(TheRoom, cl[c].local)]
    /\ cl' = [cl EXCEPT ![c] = [cl[c] EXCEPT !.pc = "syncing", !.sent = cl[c].local]]
    /\ UNCHANGED <<db, now, eqVars>>

\* syncData after its fetch resolved; decide is what onSyncConflict returns per
\* character (the return value is not used)
syncResponse(c, decide) ==
    /\ cl[c].pc = "syncing"
    /\ hs[c].pc = "done"
    /\ LET result == hs[c].response
       IN cl' = [cl EXCEPT ![c] =
                   IF result.status = 200
                   THEN [cl[c] EXCEPT
                           !.local = OrderDesc(result.characters),
                           !.pc = "synced",
                           !.conflicts = result.syncResult.conflicts,
                           !.decisions =
                              [k \in 1..Len(result.syncResult.conflicts) |->
                                 decide[result.syncResult.conflicts[k].characterId]],
                           !.reported =
                              cl[c].reported
                              \cup {result.syncResult.conflicts[k].localData :
                                      k \in 1..Len(result.syncResult.conflicts)}]
                   ELSE [cl[c] EXCEPT !.backendAvailable = "false", !.pc = "idle",
                                      !.sent = <<>>]]
    /\ hs' = [hs EXCEPT ![c] = IdleHandler]
    /\ UNCHANGED <<db, now, eqVars>>

\* syncData returns its result
syncReturn(c) ==
    /\ cl[c].pc = "synced"
    /\ cl' = [cl EXCEPT ![c] = [cl[c] EXCEPT !.pc = "idle", !.sent = <<>>,
                                             !.conflicts = <<>>, !.decisions = <<>>]]
    /\ UNCHANGED <<srvVars, eqVars>>

(***************************************************************************)
(* GET, PUT and DELETE /api/characters.  Each handler issues one statement, *)
(* so a handler is the function from the rows and the request to the rows   *)
(* it leaves and the response it sends.                                     *)
(***************************************************************************)
\* handleGetCharacters: the response is a mapping from character_id, so the order of
\* the rows (created_at DESC) only decides the order of its keys
handleGetCharacters(rows, roomId) ==
    IF ~Truthy(roomId)
    THEN [rows |-> rows, response |-> [status |-> 400]]
    ELSE [rows |-> rows,
          response |-> [status |-> 200, characters |-> CharsOf(SelectRoom(rows, roomId))]]

\* handleCreateCharacter for any request body
createCharacter(rows, roomId, characterId, name, data, t) ==
    IF ~Truthy(roomId) \/ ~Truthy(characterId) \/ ~Truthy(name)
    THEN [rows |-> rows, response |-> [status |-> 400]]
    ELSE [rows |-> Upsert(rows, roomId, characterId, name, UpsertData(data), t),
          response |-> Created201(Row(roomId, characterId, name, UpsertData(data), t))]

\* variant: SET name = $3, equipment_data = $4
TakeSupplied(v, old) == v

\* COALESCE($3, name), COALESCE($4, equipment_data); data ? JSON.stringify(data) : null
Coalesce(v, old) == IF v # Null THEN v ELSE old

handleUpdateCharacter(rows, roomId, characterId, name, data, t) ==
    IF ~Truthy(roomId) \/ ~Truthy(characterId)
    THEN [rows |-> rows, response |-> [status |-> 400]]
    ELSE IF ~HasRow(rows, roomId, characterId)
    THEN [rows |-> rows, response |-> [status |-> 404]]
    ELSE LET old == TheRow(rows, roomId, characterId)
             new == Row(roomId, characterId, Coalesce(name, old.name),
                        Coalesce(data, old.equipment_data), t)
         IN [rows |-> (rows \ {old}) \cup {new},
             response |-> [status |-> 200, id |-> characterId, name |-> new.name,
                           data |-> new.equipment_data, lastModified |-> t]]

\* DELETE FROM characters WHERE room_id = $1 AND character_id = $2 RETURNING *
handleDeleteCharacter(rows, roomId, characterId) ==
    IF ~Truthy(roomId) \/ ~Truthy(characterId)
    THEN [rows |-> rows, response |-> [status |-> 400]]
    ELSE IF ~HasRow(rows, roomId, characterId)
    THEN [rows |-> rows, response |-> [status |-> 404]]
    ELSE [rows |-> {r \in rows : ~(r.room_id = roomId /\ r.character_id = characterId)},
          response |-> [status |-> 200]]

\* the handler of /api/characters for one request: the method decides the function
\* applied to the table; POST and PUT stamp what they write with NOW()
charactersResult(rows, method, roomId, characterId, name, data, t) ==
    CASE method = "GET" -> handleGetCharacters(rows, roomId)
      [] method = "POST" -> createCharacter(rows, roomId, characterId, name, data, t)
      [] method = "PUT" -> handleUpdateCharacter(rows, roomId, characterId, name, data, t)
      [] method = "DELETE" -> handleDeleteCharacter(rows, roomId, characterId)
      [] OTHER -> [rows |-> rows, response |-> [status |-> 405]]

\* a request to /api/characters is handled by invocation h; the answer stays with
\* the invocation until the caller has it (Finished)
charactersHandler(h, method, roomId, characterId, name, data) ==
    /\ hs[h].pc = "idle"
    /\ LET result == charactersResult(db, method, roomId, characterId, name, data, now)
           writes == method \in {"POST", "PUT"} /\ result.rows # db
       IN /\ writes => now <= MaxNow
          /\ db' = result.rows
          /\ now' = IF writes THEN now + 1 ELSE now
          /\ hs' = [hs EXCEPT ![h] =
                      [IdleHandler EXCEPT !.pc = "done", !.roomId = roomId,
                                          !.response = result.response,
                                          !.db0 = db, !.now0 = now]]
    /\ UNCHANGED <<eqVars, cl>>

(***************************************************************************)
(* EquipmentAPIClient: deleteCharacter and loadCharacters                   *)
(***************************************************************************)
\* delete localData[characterId]
LocalDelete(local, characterId) ==
    SelectSeq(local, LAMBDA e : e.characterId # characterId)

\* deleteCharacter up to its fetch: the cache entry goes; with the backend marked
\* unavailable the call returns here (deleted = true)
deleteCharacter(c, ch) ==
    /\ cl[c].pc = "idle"
    /\ cl' = [cl EXCEPT ![c] =
                [cl[c] EXCEPT
                   !.local = LocalDelete(cl[c].local, ch),
                   !.deleted = cl[c].deleted \cup {ch},
                   !.pc = IF cl[c].backendAvailable # "false" THEN "deleting" ELSE "idle",
                   !.request = IF cl[c].backendAvailable # "false"
                               THEN [characterId |-> ch] ELSE NoRequest]]
    /\ UNCHANGED <<srvVars, eqVars>>

\* the server handles the DELETE of client c
deleteHandled(c) ==
    /\ cl[c].pc = "deleting"
    /\ cl[c].reachable
    /\ LET result == handleDeleteCharacter(db, TheRoom, cl[c].request.characterId)
       IN /\ db' = result.rows
          /\ cl' = [cl EXCEPT ![c] = [cl[c] EXCEPT !.pc = "deleted",
                                                  !.response = result.response]]
    /\ UNCHANGED <<now, hs, eqVars>>

\* deleteCharacter after its fetch resolved: it returns deleted (true)
deleteResponse(c) ==
    /\ cl[c].pc = "deleted"
    /\ cl' = [cl EXCEPT ![c] =
                [cl[c] EXCEPT
                   !.backendAvailable = IF cl[c].response.status = 200
                                        THEN cl[c].backendAvailable ELSE "false",
                   !.pc = "idle", !.request = NoRequest, !.response = [status |-> 0]]]
    /\ UNCHANGED <<srvVars, eqVars>>

\* the fetch of deleteCharacter throws; the call still returns deleted (true)
deleteFails(c) ==
    /\ cl[c].pc = "deleting"
    /\ ~cl[c].reachable
    /\ cl' = [cl EXCEPT ![c] = [cl[c] EXCEPT !.backendAvailable = "false", !.pc = "idle",
                                             !.request = NoRequest]]
    /\ UNCHANGED <<srvVars, eqVars>>

\* variant: a failed health check makes the call return {}
loadCharactersNoFallback(c) ==
    /\ cl[c].pc = "idle"
    /\ cl' = [cl EXCEPT ![c] =
                IF cl[c].reachable
                THEN [cl[c] EXCEPT !.backendAvailable = "true", !.pc = "loading",
                                   !.calledUnavailable = cl[c].backendAvailable = "false"]
                ELSE [cl[c] EXCEPT !.backendAvailable = "false",
                                   !.calledUnavailable = TRUE,
                                   !.returned = <<>>]]
    /\ UNCHANGED <<srvVars, eqVars>>

\* loadCharacters up to its GET: the cache is read and the health check is awaited;
\* when the check fails the call returns results.local || {}
loadCharacters(c) ==
    /\ cl[c].pc = "idle"
    /\ cl' = [cl EXCEPT ![c] =
                IF cl[c].reachable
                THEN [cl[c] EXCEPT !.backendAvailable = "true", !.pc = "loading",
                                   !.calledUnavailable = cl[c].backendAvailable = "false"]
                ELSE [cl[c] EXCEPT !.backendAvailable = "false",
                                   !.calledUnavailable = TRUE,
                                   !.returned = cl[c].local]]
    /\ UNCHANGED <<srvVars, eqVars>>

\* the server handles the GET of client c
loadHandled(c) ==
    /\ cl[c].pc = "loading"
    /\ cl[c].reachable
    /\ cl' = [cl EXCEPT ![c] =
                [cl[c] EXCEPT !.pc = "loaded",
                              !.response = handleGetCharacters(db, TheRoom).response]]
    /\ UNCHANGED <<srvVars, eqVars>>

\* the GET of loadCharacters throws: the call returns results.local || {}
\* (backendAvailable stays as the health check left it)
loadFails(c) ==
    /\ cl[c].pc = "loading"
    /\ ~cl[c].reachable
    /\ cl' = [cl EXCEPT ![c] = [cl[c] EXCEPT !.pc = "idle", !.returned = cl[c].local]]
    /\ UNCHANGED <<srvVars, eqVars>>

\* loadCharacters after its GET resolved: with a cache that holds characters it
\* calls syncData(roomId, results.local), with an empty one the remote characters
\* become the cache and are returned
loadResponse(c) ==
    /\ cl[c].pc = "loaded"
    /\ IF cl[c].local # <<>>
       THEN /\ hs[c].pc = "idle"
            /\ hs' = [hs EXCEPT ![c] = Received(TheRoom, cl[c].local)]
            /\ cl' = [cl EXCEPT ![c] = [cl[c] EXCEPT !.pc = "loadsync",
                                                    !.sent = cl[c].local,
                                                    !.response = [status |-> 0]]]
       ELSE /\ cl' = [cl EXCEPT ![c] =
                        [cl[c] EXCEPT !.local = OrderDesc(cl[c].response.characters),
                                      !.returned = OrderDesc(cl[c].response.characters),
                                      !.pc = "idle", !.response = [status |-> 0]]]
            /\ UNCHANGED hs
    /\ UNCHANGED <<db, now, eqVars>>

\* the syncData call of loadCharacters after its fetch: loadCharacters returns
\* syncResult.characters, which is the response's characters when the sync was
\* answered 200 and the localData it passed otherwise
loadSyncResponse(c) ==
    /\ cl[c].pc = "loadsync"
    /\ hs[c].pc = "done"
    /\ LET result == hs[c].response
       IN cl' = [cl EXCEPT ![c] =
                   IF result.status = 200
                   THEN [cl[c] EXCEPT !.local = OrderDesc(result.characters),
                                      !.returned = OrderDesc(result.characters),
                                      !.pc = "idle", !.sent = <<>>,
                                      !.reported =
                                         cl[c].reported
                                         \cup {result.syncResult.conflicts[k].localData :
                                                 k \in 1..Len(result.syncResult.conflicts)}]
                   ELSE [cl[c] EXCEPT !.backendAvailable = "false", !.pc = "idle",
                                      !.returned = cl[c].sent, !.sent = <<>>]]
    /\ hs' = [hs EXCEPT ![c] = IdleHandler]
    /\ UNCHANGED <<db, now, eqVars>>

\* the POST /api/sync of loadCharacters throws
loadSyncFails(c) ==
    /\ cl[c].pc = "loadsync"
    /\ hs[c].pc = "connect"
    /\ ~cl[c].reachable
    /\ cl' = [cl EXCEPT ![c] = [cl[c] EXCEPT !.backendAvailable = "false", !.pc = "idle",
                                             !.returned = cl[c].sent, !.sent = <<>>]]
    /\ hs' = [hs EXCEPT ![c] = IdleHandler]
    /\ UNCHANGED <<db, now, eqVars>>

\* the backend goes out of reach of client c, or comes back
setReachable(c, up) ==
    /\ cl[c].reachable # up
    /\ cl' = [cl EXCEPT ![c].reachable = up]
    /\ UNCHANGED <<srvVars, eqVars>>

Init == EquipInit /\ SyncInit /\ ClientInit

(***************************************************************************)
(* Spec: the user drives one EquipmentSystem through the buttons of the     *)
(* cards and of the overview; each click passes to the handler what the     *)
(* button carries.                                                          *)
(***************************************************************************)
WeaponSlots == {"primaryWeapon", "secondaryWeapon"}

SingleSlots == WeaponSlots \cup {"armor", "clothing"}

AddItem ==
    \E type \in AddTypes, name \in Names, description \in Descriptions :
      addNewItem(type, name, description)

UpdateSearch == \E term \in SearchTerms : updateSearch(term)

\* the Equip button of a card
ClickEquip ==
    \E card \in Cards :
      ~card.isEquipped /\ equipItem(card.type, card.category, card.index)

\* the Unequip button of a card
ClickUnequip ==
    \E card \in Cards :
      card.isEquipped /\ unequipItem(card.type, card.category, card.index)

ChooseWeaponSlot ==
    \E slot \in WeaponSlots, weapon \in weaponModals : equipWeaponToSlot(slot, weapon)

CancelWeaponSlot == \E weapon \in weaponModals : closeModal(weapon)

ClickUnequipSpecific == \E slot \in SingleSlots : unequipSpecificItem(slot)

ClickUnequipJewelry ==
    \E index \in 0..(Len(equipped.jewelry) - 1) : unequipJewelry(index)

ClickUnequipBelt ==
    \E index \in 0..(Len(equipped.belt) - 1) : unequipBeltItem(index)

\* the Drop button of a card, and the answer to its confirmation
ClickDrop ==
    \E card \in Cards, confirmed \in BOOLEAN :
      dropItem(card.category, card.index, confirmed)

Next ==
    \/ AddItem
    \/ UpdateSearch
    \/ ClickEquip
    \/ ClickUnequip
    \/ ChooseWeaponSlot
    \/ CancelWeaponSlot
    \/ ClickUnequipSpecific
    \/ ClickUnequipJewelry
    \/ ClickUnequipBelt
    \/ ClickDrop

Spec == Init /\ [][Next]_vars

(***************************************************************************)
(* BagSpec: consumables are added, put on the belt and taken off it, and   *)
(* the bag selector changes the bag.                                       *)
(***************************************************************************)
BeltTypes == {"potion", "food"}

BagAddItem ==
    \E type \in BeltTypes, name \in Names, description \in Descriptions :
      addNewItem(type, name, description)

\* the bag selector changes to another bag
ChangeBag == \E bagName \in BagNames \ {selectedBag} : changeBagType(bagName)

BagNext ==
    \/ BagAddItem
    \/ ClickEquip
    \/ ClickUnequip
    \/ ClickUnequipBelt
    \/ ClickDrop
    \/ ChangeBag

BagSpec == Init /\ [][BagNext]_vars

(***************************************************************************)
(* TimingSpec: items are added at any pace, the clock of Date.now() need   *)
(* not have advanced between two adds; the items, armors and potions, are  *)
(* equipped, unequipped and dropped from their cards.                      *)
(***************************************************************************)
TimedTypes == {"armor", "potion"}

TimedAddItem ==
    \E type \in TimedTypes, elapsed \in {0, 1} :
      addNewItemAt(type, <<"a">>, <<>>, elapsed)

TimingNext ==
    \/ TimedAddItem
    \/ ClickEquip
    \/ ClickUnequip
    \/ ClickDrop

TimingSpec == Init /\ [][TimingNext]_vars

(***************************************************************************)
(* GoldSpec: the gold tracker of one EquipmentSystem, with potions added   *)
(* to the inventory and sold for any price typed into the prompt.  The     *)
(* banks keep the empty location they are opened with.                     *)
(***************************************************************************)
\* a potion is added once the last one is sold
GoldAddItem == Cards = {} /\ addNewItem("potion", <<"a">>, <<>>)

\* what the user of GoldSpec answers when asked for a price
GoldAnswers ==
    {Cancelled, Typed(<<>>), Typed(<<"x">>), Typed(<<"-", "1">>), Typed(<<"0">>),
     Typed(<<"1">>), Typed(<<"1", ".", "5">>), Typed(<<"1", "0">>), Typed(<<"9", "0">>)}

GoldSell ==
    \E card \in Cards, answer \in GoldAnswers :
      sellItem(card.category, card.index, answer)

\* a click on a circle of the tracker
ClickGoldCircle ==
    \E type \in GoldTypes : \E amount \in goldCircles(type) : setGoldAmount(type, amount)

ClickEquippedPouches == \E change \in {-1, 1} : adjustEquippedPouches(change)

ClickAddBank == addBank

BankIndexes == 0..(Len(gold.banks) - 1)

ClickRemoveBank == \E index \in BankIndexes : removeBank(index)

ClickBankChests ==
    \E index \in BankIndexes, change \in {-1, 1} : adjustBankChests(index, change)

GoldNext ==
    \/ GoldAddItem
    \/ GoldSell
    \/ ClickGoldCircle
    \/ ClickEquippedPouches
    \/ ClickAddBank
    \/ ClickRemoveBank
    \/ ClickBankChests

GoldSpec == Init /\ [][GoldNext]_vars

(***************************************************************************)
(* SyncSpec: requests of any shape reach one invocation of the handler,    *)
(* one after the other; the handler is the only writer of the table.       *)
(***************************************************************************)
SyncReceive == \E r \in RoomIds, l \in LocalDatas : Receive(1, r, l)

SyncRetry == Retry(1)

SyncFinished == Finished(1)

SyncConnected == Connected(1)

SyncInitialRead == InitialRead(1)

SyncProcessEntry == ProcessEntry(1)

SyncLoopDone == LoopDone(1)

SyncFinalRead == FinalRead(1)

SyncStorageFails == StorageFails(1)

SyncNext ==
    \/ SyncReceive
    \/ SyncRetry
    \/ SyncFinished
    \/ SyncConnected
    \/ SyncInitialRead
    \/ SyncProcessEntry
    \/ SyncLoopDone
    \/ SyncFinalRead
    \/ SyncStorageFails

SyncSpec == Init /\ [][SyncNext]_vars

(***************************************************************************)
(* ClientSpec: two clients save and synchronise; the invocations of the     *)
(* handlers they call interleave at the statements of the store.            *)
(***************************************************************************)
ClientHealth == \E c \in Clients, ok \in BOOLEAN : checkBackendHealth(c, ok)

ClientSave ==
    \E c \in Clients, ch \in ClientChars, characterData \in ClientPayloads, t \in 1..MaxT :
      saveCharacter(c, ch, characterData, t)

ServerCreate == \E c \in Clients : handleCreateCharacter(c)

ClientSaveResponse == \E c \in Clients : saveResponse(c)

ClientSaveFails == \E c \in Clients : saveFails(c)

ClientSync == \E c \in Clients : syncData(c)

ServerConnected == \E c \in Clients : Connected(c)

ServerInitialRead == \E c \in Clients : InitialRead(c)

ServerProcessEntry == \E c \in Clients : ProcessEntry(c)

ServerLoopDone == \E c \in Clients : LoopDone(c)

ServerFinalRead == \E c \in Clients : FinalRead(c)

ServerStorageFails == \E c \in Clients : StorageFails(c)

ClientSyncResponse ==
    \E c \in Clients, decide \in [Chars -> Decisions] : syncResponse(c, decide)

ClientSyncReturn == \E c \in Clients : syncReturn(c)

ClientNext ==
    \/ ClientHealth
    \/ ClientSave
    \/ ServerCreate
    \/ ClientSaveResponse
    \/ ClientSaveFails
    \/ ClientSync
    \/ ServerConnected
    \/ ServerInitialRead
    \/ ServerProcessEntry
    \/ ServerLoopDone
    \/ ServerFinalRead
    \/ ServerStorageFails
    \/ ClientSyncResponse
    \/ ClientSyncReturn

ClientSpec == Init /\ [][ClientNext]_vars

(***************************************************************************)
(* OfflineSpec: one client saves, deletes, loads and synchronises while the *)
(* backend goes out of reach and comes back at any moment.                  *)
(***************************************************************************)
OfflineNext ==
    \/ \E up \in BOOLEAN : setReachable(1, up)
    \/ \E ch \in ClientChars, characterData \in ClientPayloads, t \in 1..MaxT :
         saveCharacter(1, ch, characterData, t)
    \/ cl[1].reachable /\ handleCreateCharacter(1)
    \/ saveResponse(1)
    \/ ~cl[1].reachable /\ saveFails(1)
    \/ \E ch \in ClientChars : deleteCharacter(1, ch)
    \/ deleteHandled(1)
    \/ deleteResponse(1)
    \/ deleteFails(1)
    \/ loadCharacters(1)
    \/ loadHandled(1)
    \/ loadFails(1)
    \/ loadResponse(1)
    \/ loadSyncResponse(1)
    \/ loadSyncFails(1)
    \/ syncData(1)
    \/ SyncConnected
    \/ SyncInitialRead
    \/ SyncProcessEntry
    \/ SyncLoopDone
    \/ SyncFinalRead
    \/ SyncStorageFails
    \/ \E decide \in [Chars -> {"server"}] : syncResponse(1, decide)
    \/ syncReturn(1)

OfflineSpec == Init /\ [][OfflineNext]_vars

(***************************************************************************)
(* RecoverySpec: one client saves and loads through an outage.  Every call  *)
(* that has started goes on, the backend answers the requests it receives,  *)
(* and the client keeps calling loadCharacters.                             *)
(***************************************************************************)
RecoverySave ==
    \E ch \in ClientChars, characterData \in ClientPayloads, t \in 1..MaxT :
      saveCharacter(1, ch, characterData, t)

RecoveryFailure ==
    \/ \E up \in BOOLEAN : setReachable(1, up)
    \/ ~cl[1].reachable /\ saveFails(1)
    \/ loadFails(1)
    \/ loadSyncFails(1)
    \/ ~cl[1].reachable /\ SyncStorageFails

RecoveryProgress ==
    \/ cl[1].reachable /\ handleCreateCharacter(1)
    \/ saveResponse(1)
    \/ loadCharacters(1)
    \/ loadHandled(1)
    \/ loadResponse(1)
    \/ loadSyncResponse(1)
    \/ SyncConnected
    \/ SyncInitialRead
    \/ SyncProcessEntry
    \/ SyncLoopDone
    \/ SyncFinalRead

RecoveryNext == RecoverySave \/ RecoveryFailure \/ RecoveryProgress

RecoverySpec == Init /\ [][RecoveryNext]_vars /\ WF_vars(RecoveryProgress)

(***************************************************************************)
(* RoomSpec: requests for two rooms reach /api/sync and /api/characters,    *)
(* one after the other.                                                     *)
(***************************************************************************)
OtherRoom == "r2"

RequestRooms == Rooms \cup {OtherRoom, Null}

Methods == {"GET", "POST", "PUT", "DELETE"}

\* the localData of the sync requests: nothing, or one snapshot of c1
RoomLocalDatas ==
    {<<>>} \cup {<<Entry("c1", p, t)>> : p \in ClientPayloads, t \in 1..MaxT}

RoomSync == \E roomId \in RequestRooms, localData \in RoomLocalDatas : Receive(1, roomId, localData)

RoomCharacters ==
    \E method \in Methods, roomId \in RequestRooms, characterId \in ClientChars,
       name \in {"n1", Null}, data \in {"d1", "d2", Null} :
      charactersHandler(1, method, roomId, characterId, name, data)

RoomNext ==
    \/ RoomSync
    \/ RoomCharacters
    \/ SyncConnected
    \/ SyncInitialRead
    \/ SyncProcessEntry
    \/ SyncLoopDone
    \/ SyncFinalRead
    \/ SyncFinished

RoomSpec == Init /\ [][RoomNext]_vars

(***************************************************************************)
(* StoreSpec: two invocations serve requests to /api/sync and to            *)
(* /api/characters for one room; they interleave at the statements.         *)
(***************************************************************************)
StoreSync ==
    \E h \in Handlers, localData \in RoomLocalDatas : Receive(h, TheRoom, localData)

StoreCharacters ==
    \E h \in Handlers, method \in Methods \ {"GET"}, characterId \in ClientChars,
       name \in {"n1", Null}, data \in {"d1", "d2", Null} :
      charactersHandler(h, method, TheRoom, characterId, name, data)

StoreNext ==
    \/ StoreSync
    \/ StoreCharacters
    \/ \E h \in Handlers : Connected(h)
    \/ \E h \in Handlers : InitialRead(h)
    \/ \E h \in Handlers : ProcessEntry(h)
    \/ \E h \in Handlers : LoopDone(h)
    \/ \E h \in Handlers : FinalRead(h)
    \/ \E h \in Handlers : Finished(h)

StoreSpec == Init /\ [][StoreNext]_vars

(***************************************************************************)
(* DeleteSpec: client 1 saves, deletes and loads, also through an outage;   *)
(* client 2 only loads, which reconciles the cache it has.                  *)
(***************************************************************************)
DeleteNext ==
    \/ \E up \in BOOLEAN : setReachable(1, up)
    \/ \E ch \in ClientChars, t \in 1..MaxT :
         saveCharacter(1, ch, [name |-> "n1", data |-> "d1"], t)
    \/ cl[1].reachable /\ handleCreateCharacter(1)
    \/ saveResponse(1)
    \/ ~cl[1].reachable /\ saveFails(1)
    \/ \E ch \in ClientChars : deleteCharacter(1, ch)
    \/ deleteHandled(1)
    \/ deleteResponse(1)
    \/ deleteFails(1)
    \/ \E c \in Clients : loadCharacters(c)
    \/ \E c \in Clients : loadHandled(c)
    \/ loadFails(1)
    \/ \E c \in Clients : loadResponse(c)
    \/ \E c \in Clients : loadSyncResponse(c)
    \/ loadSyncFails(1)
    \/ ServerConnected
    \/ ServerInitialRead
    \/ ServerProcessEntry
    \/ ServerLoopDone
    \/ ServerFinalRead

DeleteSpec == Init /\ [][DeleteNext]_vars

(***************************************************************************)
(* Properties of the reconciliation handler, stated for SyncSpec           *)
(***************************************************************************)
H == hs[1]

Ids(list) == {list[i] : i \in 1..Len(list)}

ConflictIds(list) == {list[i].characterId : i \in 1..Len(list)}

LocalEntries(h) == {h.localData[i] : i \in 1..Len(h.localData)}

LocalIds(h) == {e.characterId : e \in LocalEntries(h)}

Answered(status) == H.pc = "done" /\ H.response.status = status

\* the record the call found for the character, and the one the store holds now
Remote0(ch) == TheRow(H.db0, H.roomId, ch)

RemoteNow(ch) == TheRow(db, H.roomId, ch)

\* C2: in a 200 response, every character of the request is reported created iff
\* the room had no record of it when the call arrived; otherwise it is reported
\* updated iff its local lastModified is later than the record's, conflict iff the
\* record's is later, synced iff they are equal; a snapshot without lastModified
\* (0) is older than every record, so it is a conflict when the record exists.
C2_DispositionRule ==
    Answered(200) =>
      \A e \in LocalEntries(H) :
        LET ch == e.characterId
            res == H.response.syncResult
            had == HasRow(H.db0, H.roomId, ch)
        IN /\ ch \in Ids(res.created) <=> ~had
           /\ ~had => ch \notin Ids(res.updated) \cup ConflictIds(res.conflicts)
                                \cup Ids(res.synced)
           /\ had =>
                /\ ch \in Ids(res.updated) <=> e.lastModified > Remote0(ch).updated_at
                /\ ch \in ConflictIds(res.conflicts)
                     <=> Remote0(ch).updated_at > e.lastModified
                /\ ch \in Ids(res.synced) <=> e.lastModified = Remote0(ch).updated_at
                /\ e.lastModified = 0 => ch \in ConflictIds(res.conflicts)

\* a call answered 200 that reports one character synced and the other created
C2_Witness ==
    /\ Answered(200)
    /\ Len(H.response.syncResult.synced) = 1
    /\ Len(H.response.syncResult.created) = 1

\* C3: from the moment a character is put on the conflicts or the synced list, and
\* in the answer, its record is the one the call found (same name, data and
\* lastModified); a conflict entry holds the request's snapshot of the character
\* as localData and the record the call found as serverData.
C3_ConflictAndSyncedLeaveRecord ==
    H.pc # "idle" =>
      /\ \A k \in Ids(H.syncResult.conflicts) :
           /\ HasRow(H.db0, H.roomId, k.characterId)
           /\ HasRow(db, H.roomId, k.characterId)
           /\ RemoteNow(k.characterId) = Remote0(k.characterId)
           /\ k.localData \in LocalEntries(H)
           /\ k.localData.characterId = k.characterId
           /\ k.serverData = CharOf(Remote0(k.characterId))
      /\ \A ch \in Ids(H.syncResult.synced) :
           /\ HasRow(H.db0, H.roomId, ch)
           /\ HasRow(db, H.roomId, ch)
           /\ RemoteNow(ch) = Remote0(ch)

\* a call answered 200 that reports a conflict and has written another character
C3_Witness ==
    /\ Answered(200)
    /\ Len(H.response.syncResult.conflicts) = 1
    /\ Len(H.response.syncResult.created) = 1
    /\ db # H.db0

\* what C6 says of one character of a 200 response: the store and the returned
\* characters hold the snapshot's name and data and a lastModified stamped during
\* the call, later than the record's previous one if the character was updated
WrittenAsSent(e) ==
    LET ch == e.characterId
    IN /\ HasRow(db, H.roomId, ch)
       /\ RemoteNow(ch).name = e.name
       /\ RemoteNow(ch).equipment_data = e.data
       /\ RemoteNow(ch).updated_at >= H.now0
       /\ RemoteNow(ch).updated_at < now
       /\ CharOf(RemoteNow(ch)) \in H.response.characters
       /\ ch \in Ids(H.response.syncResult.updated)
            => RemoteNow(ch).updated_at > Remote0(ch).updated_at

IsWritten(e) ==
    e.characterId \in Ids(H.response.syncResult.created)
                        \cup Ids(H.response.syncResult.updated)

\* C6 as stated: in a 200 response of a call with no other writer, every character
\* reported created or updated whose snapshot has a name is stored and returned
\* with the snapshot's name and data and a server-stamped lastModified.
C6_AsStated ==
    Answered(200) =>
      \A e \in LocalEntries(H) : (IsWritten(e) /\ Truthy(e.name)) => WrittenAsSent(e)

\* C6, amended: the same for every created or updated character whose snapshot has
\* a name and data.
C6_WrittenAsSent ==
    Answered(200) =>
      \A e \in LocalEntries(H) :
        (IsWritten(e) /\ Truthy(e.name) /\ Truthy(e.data)) => WrittenAsSent(e)

\* a call answered 200 that reports an update of a snapshot with name and data
C6_Witness ==
    /\ Answered(200)
    /\ \E e \in LocalEntries(H) :
         /\ e.characterId \in Ids(H.response.syncResult.updated)
         /\ Truthy(e.name) /\ Truthy(e.data)

\* C7: in a 200 response, a record of the room whose character is not in the request
\* is in the store as the call found it, is among the returned characters as it
\* was, and is on none of the four lists.
C7_RemoteOnlyUntouched ==
    Answered(200) =>
      \A r \in SelectRoom(H.db0, H.roomId) :
        r.character_id \notin LocalIds(H) =>
          /\ r \in db
          /\ CharOf(r) \in H.response.characters
          /\ r.character_id \notin
               Ids(H.response.syncResult.created) \cup Ids(H.response.syncResult.updated)
               \cup Ids(H.response.syncResult.synced)
               \cup ConflictIds(H.response.syncResult.conflicts)

\* a call answered 200 that wrote a character while the room held another one the
\* request does not name
C7_Witness ==
    /\ Answered(200)
    /\ db # H.db0
    /\ \E r \in SelectRoom(H.db0, H.roomId) : r.character_id \notin LocalIds(H)

\* the position in the request of the character whose statement threw
ThrewAt(k) == k \in 1..Len(H.localData) /\ H.localData[k].characterId = H.threw

\* the record of the character is as the call found it: absent, or the same row
Untouched(ch) ==
    /\ HasRow(db, H.roomId, ch) <=> HasRow(H.db0, H.roomId, ch)
    /\ HasRow(db, H.roomId, ch) => RemoteNow(ch) = Remote0(ch)

\* the record of the character is the one the call's INSERT or UPDATE wrote
Committed(e) ==
    LET ch == e.characterId
        inserted == ch \in Ids(H.syncResult.created)
    IN /\ HasRow(db, H.roomId, ch)
       /\ RemoteNow(ch).name = (IF inserted THEN InsertName(e) ELSE e.name)
       /\ RemoteNow(ch).equipment_data = (IF inserted THEN InsertData(e) ELSE e.data)
       /\ RemoteNow(ch).updated_at >= H.now0
       /\ RemoteNow(ch).updated_at < now

\* C8: when the INSERT or UPDATE of the k-th character of the request fails, the
\* call is answered with the internal error and nothing else (no disposition
\* report), the records written for the characters before the k-th are in the
\* store, and the records of the k-th and of the later characters are as the call
\* found them.
C8_FailedWrite ==
    (H.pc = "done" /\ H.threw \in Chars) =>
      /\ H.response = Error500
      /\ \E k \in 1..Len(H.localData) :
           /\ ThrewAt(k)
           /\ \A i \in 1..(k - 1) :
                IF H.localData[i].characterId
                     \in Ids(H.syncResult.created) \cup Ids(H.syncResult.updated)
                THEN Committed(H.localData[i])
                ELSE Untouched(H.localData[i].characterId)
           /\ \A i \in k..Len(H.localData) : Untouched(H.localData[i].characterId)

\* the write of the second character failed after the first one was created
C8_Witness ==
    /\ H.pc = "done"
    /\ H.threw = "c2"
    /\ H.syncResult.created = <<"c1">>
    /\ db # H.db0

SameRecords ==
    /\ \A r0 \in H.db0 : HasRow(db, r0.room_id, r0.character_id)
    /\ \A r \in db :
         /\ HasRow(H.db0, r.room_id, r.character_id)
         /\ r.name = TheRow(H.db0, r.room_id, r.character_id).name
         /\ r.equipment_data = TheRow(H.db0, r.room_id, r.character_id).equipment_data

\* the row has a new updated_at only if the request's snapshot of its character is
\* later than the updated_at the call found
RestampedOnlyIfAhead(r) ==
    r.updated_at # TheRow(H.db0, r.room_id, r.character_id).updated_at =>
      \E e \in LocalEntries(H) :
        /\ r.room_id = H.roomId
        /\ e.characterId = r.character_id
        /\ e.lastModified > TheRow(H.db0, r.room_id, r.character_id).updated_at

EquippedSlots(eq) ==
    <<eq.primaryWeapon, eq.secondaryWeapon, eq.armor, eq.clothing>> \o eq.jewelry \o eq.belt

\* C1: after any sequence of equip and unequip operations from the default state,
\* no item id is referenced by more than one slot of the equipped state.
C1_NoDuplicateEquip ==
    \A i, j \in 1..Len(EquippedSlots(equipped)) :
      (i # j /\ IsItem(EquippedSlots(equipped)[i]) /\ IsItem(EquippedSlots(equipped)[j]))
        => EquippedSlots(equipped)[i].id # EquippedSlots(equipped)[j].id

(***************************************************************************)
(* Properties of the clients, stated for ClientSpec                        *)
(***************************************************************************)
\* the cache holds the snapshot: an entry of its character with its name and data
Holds(local, e) ==
    \E k \in 1..Len(local) :
      /\ local[k].characterId = e.characterId
      /\ local[k].name = e.name
      /\ local[k].data = e.data

\* C4: when syncData has processed a response with a conflict for a character, the
\* cache still holds the local snapshot of the character unless onSyncConflict
\* returned 'server' for it.
C4_ConflictKeepsLocal ==
    \A c \in Clients :
      cl[c].pc = "synced" =>
        \A k \in 1..Len(cl[c].conflicts) :
          cl[c].decisions[k] # "server" => Holds(cl[c].local, cl[c].conflicts[k].localData)

\* C5: in every interleaving of the two clients' saves and synchronisations, when
\* syncData has replaced in the cache a snapshot it sent, the snapshot has been
\* named in a conflicts list answered to this client (in this response or an
\* earlier one).
C5_LoserIsToldOfConflict ==
    \A c \in Clients :
      cl[c].pc = "synced" =>
        \A k \in 1..Len(cl[c].sent) :
          ~Holds(cl[c].local, cl[c].sent[k]) => cl[c].sent[k] \in cl[c].reported

(***************************************************************************)
(* Properties of the belt and the bag, stated for BagSpec                  *)
(***************************************************************************)
\* a step of changeBagType to another bag
BagSwitched == selectedBag' # selectedBag

\* C11: changeBagType keeps every belt item at an index below the new bag's
\* consumableSlots in its slot, unequips exactly the belt items at indices at or
\* above the new slot count, and leaves the inventory unchanged.
C11_BagSwitchKeepsBelt ==
    [][BagSwitched =>
         /\ Len(equipped'.belt) = bagTypes[selectedBag'].consumableSlots
         /\ \A i \in 0..(Len(equipped'.belt) - 1) :
              At(equipped'.belt, i) =
                IF i < Len(equipped.belt) THEN At(equipped.belt, i) ELSE NoItem
         /\ inventory' = inventory]_vars

\* C12: in every reachable state, including the initial default state, the length
\* of equipped.belt equals the consumableSlots of the currently selected bag.
C12_BeltLengthIsBagSlots ==
    Len(equipped.belt) = bagTypes[selectedBag].consumableSlots

(***************************************************************************)
(* Properties of dropping and selling, stated for Spec                     *)
(***************************************************************************)
\* the step removes the item at the index of the category: a confirmed dropItem,
\* or a sellItem whose price is accepted
Removes(category, index) ==
    \/ dropItem(category, index, TRUE)
    \/ \E answer \in GoldAnswers :
         sellAccepted(answer) /\ sellItem(category, index, answer)

\* the places of the inventory: a category and an index in it
Places ==
    UNION {{[category |-> CategoryNames[c], index |-> k - 1] :
              k \in 1..Len(inventory[CategoryNames[c]])} :
           c \in 1..Len(CategoryNames)}

ItemAt(place) == At(inventory[place.category], place.index)

\* C13: for every reachable state and every inventory item x, the total carried
\* weight after dropItem(x) equals the total before minus weight(x.type) if x was
\* not equipped, and equals the total before if x was equipped.
C13_DropWeight ==
    [][\A place \in Places :
         dropItem(place.category, place.index, TRUE) =>
           calculateEncumbrance(equipped', inventory') =
             calculateEncumbrance(equipped, inventory)
               - (IF isItemEquipped(equipped, ItemAt(place), ItemAt(place).type)
                  THEN 0
                  ELSE weightOf(ItemAt(place).type))]_vars

\* C14: dropItem(x) and sellItem(x) clear every equipped slot that references x
\* before x is removed from its category, so after either operation no equipped
\* slot references x's id.
C14_RemovedIsUnequipped ==
    [][\A place \in Places :
         Removes(place.category, place.index) =>
           \A k \in 1..Len(EquippedSlots(equipped')) :
             ~HasId(EquippedSlots(equipped')[k], ItemAt(place))]_vars

\* the categories that hold an item with the id
CategoriesOf(id) ==
    {c \in 1..Len(CategoryNames) :
       \E k \in 1..Len(inventory[CategoryNames[c]]) :
         inventory[CategoryNames[c]][k].id = id}

\* C15: in every state reachable by any interleaving of the user-triggered
\* operations (add, equip, weapon-slot choice from a still-open slot dialog,
\* unequip, drop, sell, bag switch), every item referenced by an equipped slot is
\* present in exactly one inventory category.
C15_EquippedIsInInventory ==
    \A k \in 1..Len(EquippedSlots(equipped)) :
      IsItem(EquippedSlots(equipped)[k]) =>
        Cardinality(CategoriesOf(EquippedSlots(equipped)[k].id)) = 1

\* C16: dropItem(x) and sellItem(x) unequip only x: every equipped slot that holds
\* an item with an id different from x's is unchanged by the operation, in
\* particular when x itself is not equipped.
C16_RemovalUnequipsOnlyItem ==
    [][\A place \in Places :
         Removes(place.category, place.index) =>
           \A k \in 1..Len(EquippedSlots(equipped)) :
             (/\ IsItem(EquippedSlots(equipped)[k])
              /\ ~HasId(EquippedSlots(equipped)[k], ItemAt(place)))
               => EquippedSlots(equipped')[k] = EquippedSlots(equipped)[k]]_vars

(***************************************************************************)
(* Properties of the gold tracker, stated for GoldSpec                     *)
(***************************************************************************)
\* C17: in every state reachable through the gold operations (setGoldAmount on
\* coins/pouches/chest, adjustEquippedPouches, sellItem), equippedPouches <= pouches
\* and equippedPouches <= 2.
C17_EquippedPouchesBounded ==
    gold.equippedPouches <= gold.pouches /\ gold.equippedPouches <= 2

\* C18: in every state reachable through the gold operations, coins is in 0..10,
\* pouches is in 0..10, chest is in {0,1}, and every bank's chests count is a
\* non-negative integer.
C18_GoldRanges ==
    /\ gold.coins \in 0..10
    /\ gold.pouches \in 0..10
    /\ gold.chest \in {0, 1}
    /\ \A b \in 1..Len(gold.banks) : gold.banks[b].chests \in Nat

\* the gold operations have filled the tracker: a sale has carried over into
\* tens of pouches with the chest already there
C18_Witness ==
    /\ last.op = "sellItem"
    /\ gold.chest = 1
    /\ gold.coins = 0
    /\ gold.pouches = 0
    /\ Len(gold.banks) > 0

\* the last operation added coins: a coin increase through setGoldAmount, or the
\* gold credited by sellItem
AddedCoins ==
    \/ last.op = "sellItem"
    \/ last.op = "setGoldAmount" /\ last.type = "coins" /\ last.increase

\* C19: no operation that adds coins ends in a state with coins >= 10 while
\* pouches < 10; adding 10 coins to {coins: 0, pouches: 0} yields
\* {coins: 0, pouches: 1}.
C19_CoinsConvert ==
    /\ AddedCoins => ~(gold.coins >= 10 /\ gold.pouches < 10)
    /\ (gold.coins = 0 /\ gold.pouches = 0) =>
         /\ setGoldAmountResult(gold, "coins", 10).coins = 0
         /\ setGoldAmountResult(gold, "coins", 10).pouches = 1
         /\ sellGold(gold, 10).coins = 0
         /\ sellGold(gold, 10).pouches = 1

\* the tenth coin has been clicked and has become the first pouch
C19_Witness ==
    /\ last.op = "setGoldAmount"
    /\ last.type = "coins"
    /\ last.increase
    /\ gold.coins = 0
    /\ gold.pouches = 1
    /\ gold.chest = 0

\* C20: sellItem credits its gold through the same coin-add rule as the gold
\* tracker: for every currency state, selling an item for 1 gold yields the same
\* coins, pouches and chest as adding one coin in the tracker.
C20_SellIsCoinAdd ==
    gold.coins + 1 \in goldCircles("coins") =>
      /\ sellGold(gold, 1).coins = setGoldAmountResult(gold, "coins", gold.coins + 1).coins
      /\ sellGold(gold, 1).pouches = setGoldAmountResult(gold, "coins", gold.coins + 1).pouches
      /\ sellGold(gold, 1).chest = setGoldAmountResult(gold, "coins", gold.coins + 1).chest

(***************************************************************************)
(* Properties of equipping and unequipping, stated for Spec                *)
(***************************************************************************)
\* the step is an equipItem or an equipWeaponToSlot that ended with an alert:
\* the item is already equipped, the slot is occupied, or no slot is empty
RejectedEquip ==
    /\ last'.op \in {"equipItem", "equipWeaponToSlot"}
    /\ last'.outcome = "rejected"

\* C21: a rejected equip (item already equipped, target weapon/armor/clothing slot
\* occupied, or no empty jewelry/belt slot) leaves the equipped state, the
\* inventory and the currency exactly as they were.
C21_RejectedEquipKeepsState ==
    [][RejectedEquip =>
         /\ equipped' = equipped
         /\ inventory' = inventory
         /\ gold' = gold]_vars

\* an equipItem has been rejected with the armor slot occupied
C21_Witness ==
    /\ last.op = "equipItem"
    /\ last.outcome = "rejected"
    /\ IsItem(equipped.armor)
    /\ \E k \in 1..Len(inventory.Gear) :
         inventory.Gear[k].type = "armor" /\ ~HasId(equipped.armor, inventory.Gear[k])


\* the item types of the cards and of the items
ItemTypes == {"weapon", "armor", "clothing", "jewelry", "potion", "food"}

\* the position in EquippedSlots of the slot the claim gives an item that equipItem
\* equips: the armor or clothing slot, else the lowest-index empty jewelry or belt
\* slot (0: none)
SlotFor(eq, item) ==
    IF item.type = "weapon" THEN 0
    ELSE IF item.type = "armor" THEN 3
    ELSE IF item.type = "clothing" THEN 4
    ELSE IF item.type = "jewelry" THEN 4 + FindIndex(IsEmptySlot(eq.jewelry)) + 1
    ELSE 4 + Len(eq.jewelry) + FindIndex(IsEmptySlot(eq.belt)) + 1

\* the position in EquippedSlots of a weapon slot
WeaponSlotPosition(slot) == IF slot = "primaryWeapon" THEN 1 ELSE 2

\* the step fills the empty slot at the position with the item and changes no other
Fills(position, item) ==
    /\ position \in 1..Len(EquippedSlots(equipped))
    /\ ~IsItem(EquippedSlots(equipped)[position])
    /\ Len(EquippedSlots(equipped')) = Len(EquippedSlots(equipped))
    /\ \A k \in 1..Len(EquippedSlots(equipped)) :
         EquippedSlots(equipped')[k] =
           IF k = position THEN item ELSE EquippedSlots(equipped)[k]

\* C22: a successful equip changes exactly one slot: a weapon goes into the
\* explicitly chosen weapon slot only if that slot is empty, armor and clothing go
\* into their single slot only if it is empty, a jewelry item goes into the
\* lowest-index empty jewelry slot, and any other item goes into the lowest-index
\* empty belt slot; the inventory is not changed by equipping.
C22_EquipFillsOneSlot ==
    [][/\ \A place \in Places, type \in ItemTypes :
            (/\ equipItem(type, place.category, place.index)
             /\ last'.outcome = "equipped")
              => /\ Fills(SlotFor(equipped, ItemAt(place)), ItemAt(place))
                 /\ inventory' = inventory
       /\ \A slot \in WeaponSlots, weapon \in weaponModals :
            (/\ equipWeaponToSlot(slot, weapon)
             /\ last'.outcome = "equipped")
              => /\ weapon.type = "weapon"
                 /\ Fills(WeaponSlotPosition(slot), weapon)
                 /\ inventory' = inventory]_vars


\* the step clears the slots at the positions and changes no other slot
Clears(positions) ==
    /\ Len(EquippedSlots(equipped')) = Len(EquippedSlots(equipped))
    /\ \A k \in 1..Len(EquippedSlots(equipped)) :
         EquippedSlots(equipped')[k] =
           IF k \in positions THEN NoItem ELSE EquippedSlots(equipped)[k]

\* the positions in EquippedSlots of the slots that hold the item
PositionsOf(eq, item) ==
    {k \in 1..Len(EquippedSlots(eq)) : HasId(EquippedSlots(eq)[k], item)}

\* the position in EquippedSlots of a single slot
SingleSlotPosition(slot) ==
    CASE slot = "primaryWeapon" -> 1
      [] slot = "secondaryWeapon" -> 2
      [] slot = "armor" -> 3
      [] slot = "clothing" -> 4

\* (the item an Unequip button targets is the one unequipItem reads at the
\* category and index of the card)
\* C23: an unequip (by slot name, by jewelry/belt index, or from an item's card)
\* empties only the slot that holds the targeted item and leaves every other
\* slot, the inventory and the currency unchanged; when the targeted slot is
\* already empty or the targeted item is not equipped, nothing changes.
C23_UnequipClearsOnlyTarget ==
    [][/\ \A card \in Cards :
            (card.isEquipped /\ unequipItem(card.type, card.category, card.index))
              => Clears(PositionsOf(equipped, At(inventory[card.category], card.index)))
       /\ \A slot \in SingleSlots :
            unequipSpecificItem(slot) => Clears({SingleSlotPosition(slot)})
       /\ \A index \in 0..(Len(equipped.jewelry) - 1) :
            unequipJewelry(index) => Clears({4 + index + 1})
       /\ \A index \in 0..(Len(equipped.belt) - 1) :
            unequipBeltItem(index) => Clears({4 + Len(equipped.jewelry) + index + 1})
       /\ (last'.op = "none" /\ equipped' # equipped /\ inventory' = inventory)
            => gold' = gold]_vars


\* C24: in every reachable state and for every inventory item,
\* isItemEquipped(item, item.type) is true if and only if the item's id appears
\* in some equipped slot (any of primaryWeapon, secondaryWeapon, armor, clothing,
\* jewelry, belt).
C24_IsItemEquippedIffInSlot ==
    \A place \in Places :
      isItemEquipped(equipped, ItemAt(place), ItemAt(place).type)
        <=> PositionsOf(equipped, ItemAt(place)) # {}

\* the sum of the weights of the items of a category that no slot references
RECURSIVE carriedWeight(_)
carriedWeight(categoryItems) ==
    IF categoryItems = <<>> THEN 0
    ELSE (IF PositionsOf(equipped, Head(categoryItems)) = {}
          THEN weightOf(Head(categoryItems).type)
          ELSE 0)
         + carriedWeight(Tail(categoryItems))

\* what isEncumbered returns
isEncumbered == calculateEncumbrance(equipped, inventory) > bagTypes[selectedBag].capacity

\* C25: calculateEncumbrance returns the sum of weight(item.type) (1 for unmapped
\* types) over exactly the inventory items that are not referenced by any equipped
\* slot, and isEncumbered is true iff that sum is strictly greater than the
\* selected bag's capacity.
C25_EncumbranceIsCarriedWeight ==
    /\ calculateEncumbrance(equipped, inventory) =
         carriedWeight(inventory.Gear) + carriedWeight(inventory.Utility)
           + carriedWeight(inventory.Quest) + carriedWeight(inventory.Crafting)
           + carriedWeight(inventory.Personal)
    /\ isEncumbered <=>
         (carriedWeight(inventory.Gear) + carriedWeight(inventory.Utility)
            + carriedWeight(inventory.Quest) + carriedWeight(inventory.Crafting)
            + carriedWeight(inventory.Personal)) > bagTypes[selectedBag].capacity


(***************************************************************************)
(* Properties of the item ids, stated for TimingSpec                       *)
(***************************************************************************)
\* C26: adding an item assigns it an id different from the id of every item
\* already in the character's inventory, so in every reachable state all
\* inventory item ids are pairwise distinct, whatever the timing of consecutive
\* adds.
C26_ItemIdsDistinct ==
    \A p, q \in Places : p # q => ItemAt(p).id # ItemAt(q).id

(***************************************************************************)
(* Properties of the client's fallback to its cache, stated for OfflineSpec *)
(***************************************************************************)
Cached(local, ch) == \E k \in 1..Len(local) : local[k].characterId = ch

\* a step at which deleteCharacter(TheRoom, ch) of client 1 returns; the value it
\* returns is `deleted`, which is true on every path (enableLocalStorage)
DeleteReturns(ch) ==
    \/ deleteCharacter(1, ch) /\ cl[1].backendAvailable = "false"
    \/ cl[1].request.characterId = ch /\ (deleteResponse(1) \/ deleteFails(1))

\* C27: explicit character deletion removes both copies: after
\* deleteCharacter(roomId, characterId) has returned true the character is absent
\* from the local cache and from the remote store, whatever the backend
\* availability state was when it was called.
C27_DeleteRemovesBothCopies ==
    [][\A ch \in ClientChars :
         DeleteReturns(ch) => ~Cached(cl'[1].local, ch) /\ ~HasRow(db', TheRoom, ch)]_vars

\* a step at which loadCharacters of client 1 returns
LoadReturns ==
    \/ loadCharacters(1) /\ ~cl[1].reachable
    \/ loadFails(1)
    \/ loadResponse(1) /\ cl[1].local = <<>>
    \/ loadSyncResponse(1)
    \/ loadSyncFails(1)

\* a step at which loadCharacters of client 1 returns because a request of it failed:
\* the health check, the GET or the sync request
LoadFallsBack ==
    \/ loadCharacters(1) /\ ~cl[1].reachable
    \/ loadFails(1)
    \/ loadSyncResponse(1) /\ hs[1].response.status # 200
    \/ loadSyncFails(1)

\* a step at which a request of saveCharacter or syncData of client 1 fails
SaveOrSyncFails ==
    \/ saveFails(1)
    \/ saveResponse(1) /\ cl[1].response.status # 201
    \/ hs[1].response.status # 200 /\ \E decide \in [Chars -> Decisions] : syncResponse(1, decide)
    \/ hs[1].response.status # 200 /\ loadSyncResponse(1)
    \/ loadSyncFails(1)

\* saveCharacter of client 1 leaves the character in the cache as it was passed
SaveStoresLocally ==
    \A ch \in ClientChars, characterData \in ClientPayloads, t \in 1..MaxT :
      saveCharacter(1, ch, characterData, t) =>
        \E k \in 1..Len(cl'[1].local) : cl'[1].local[k] = Entry(ch, characterData, t)

\* C28 as stated: a loadCharacters call made while the backend is out of reach or
\* marked unavailable returns exactly the local cache contents.
C28_AsStated ==
    [][LoadReturns /\ cl'[1].calledUnavailable => cl'[1].returned = cl[1].local]_vars

\* C28: while the backend is out of reach, the client falls back to its cache and
\* loses nothing: a loadCharacters call whose health check, GET or sync request fails
\* returns exactly the cache contents and leaves the cache as it is, saveCharacter
\* stores the character in the cache whatever the availability, and a failed
\* saveCharacter or syncData request neither removes nor overwrites a cache entry.
C28_FallbackKeepsLocal ==
    [][/\ LoadFallsBack => cl'[1].returned = cl[1].local /\ cl'[1].local = cl[1].local
       /\ SaveStoresLocally
       /\ SaveOrSyncFails => cl'[1].local = cl[1].local]_vars

C28_Witness ==
    /\ ~cl[1].reachable
    /\ cl[1].backendAvailable = "false"
    /\ cl[1].pc = "idle"
    /\ cl[1].calledUnavailable
    /\ cl[1].local # <<>>
    /\ cl[1].returned = cl[1].local
    /\ db = {}

(***************************************************************************)
(* Property of the recovery after an outage, stated for RecoverySpec       *)
(***************************************************************************)
\* the last saveCharacter call of client 1 was made during an outage with
\* characterData, and the backend is in reach again
Recovering(characterData) ==
    /\ cl[1].outageSave = <<characterData>>
    /\ cl[1].reachable

\* the server's clock has reached the bound of the model and the statement that is
\* due would write
ClockOut ==
    /\ now > MaxNow
    /\ \/ cl[1].pc = "saving"
       \/ /\ hs[1].pc = "loop"
          /\ hs[1].todo # <<>>
          /\ Disposition(Head(hs[1].todo), hs[1].dbCharacters) \in {"created", "updated"}

RemoteHolds(ch, characterData) ==
    /\ HasRow(db, TheRoom, ch)
    /\ TheRow(db, TheRoom, ch).name = characterData.name
    /\ TheRow(db, TheRoom, ch).equipment_data = characterData.data

\* C29: data saved while the backend is unavailable reaches the remote store once
\* the backend is available again: if a character is saved locally during an outage,
\* the backend then becomes and stays available, and the client keeps loading with
\* no later save of that character by anyone, then eventually the remote record
\* holds the data of that local save (or the model's clock has run out).
C29_OutageSaveReachesRemote ==
    \A characterData \in ClientPayloads :
      []([]Recovering(characterData) => <>(RemoteHolds("c1", characterData) \/ ClockOut))

(***************************************************************************)
(* Property of the room scoping, stated for RoomSpec                       *)
(***************************************************************************)
ServedRooms == Rooms \cup {OtherRoom}

\* the rows of room, and the rows of the rooms other than room
Within(rows, room) == {r \in rows : r.room_id = room}

Elsewhere(rows, room) == {r \in rows : r.room_id # room}

\* the tables that hold the rows of db for room and other rows elsewhere (none, or
\* one row of another room)
ElsewhereRows(room) ==
    {Row(r, ch, p.name, p.data, t) :
       r \in ServedRooms \ {room}, ch \in ClientChars, p \in ClientPayloads, t \in 1..MaxNow}

Variants(room) ==
    {Within(db, room)} \cup {Within(db, room) \cup {x} : x \in ElsewhereRows(room)}

\* the room of the request the step belongs to
ServedRoom == IF hs'[1].pc # "idle" THEN hs'[1].roomId ELSE hs[1].roomId

\* a request to /api/characters for room, handled on the table rows and on db, is
\* answered the same, leaves the same rows of room and leaves the other rows
CharactersScoped(room, rows) ==
    \A method \in Methods, characterId \in ClientChars, name \in {"n1", Null},
       data \in {"d1", "d2", Null} :
      LET a == charactersResult(db, method, room, characterId, name, data, now)
          b == charactersResult(rows, method, room, characterId, name, data, now)
      IN /\ a.response = b.response
         /\ Within(a.rows, room) = Within(b.rows, room)
         /\ Elsewhere(b.rows, room) = Elsewhere(rows, room)

\* the statement the sync invocation of room issues next reads and writes the same
\* on the table rows and on db
SyncScoped(room, rows) ==
    CASE H.pc = "read" -> CharsOf(SelectRoom(rows, room)) = CharsOf(SelectRoom(db, room))
      [] H.pc = "loop" /\ H.todo # <<>> ->
           LET e == Head(H.todo)
               d == Disposition(e, H.dbCharacters)
           IN /\ StatementOk(rows, room, e, d) = StatementOk(db, room, e, d)
              /\ Within(StoreAfter(rows, room, e, d, now), room)
                   = Within(StoreAfter(db, room, e, d, now), room)
              /\ Elsewhere(StoreAfter(rows, room, e, d, now), room) = Elsewhere(rows, room)
      [] H.pc = "final" -> Ok200(rows, H) = Ok200(db, H)
      [] OTHER -> TRUE

\* C30: data is scoped by room: a sync or character CRUD request for roomId R reads
\* and writes only records of room R, so the records of any other room are unchanged
\* by every step of it, and on two tables that differ only in other rooms' records
\* it is answered the same and leaves the same records of R.
C30_RoomScoped ==
    /\ [](\A room \in ServedRooms : \A rows \in Variants(room) :
            /\ CharactersScoped(room, rows)
            /\ H.roomId = room => SyncScoped(room, rows))
    /\ [][Elsewhere(db', ServedRoom) = Elsewhere(db, ServedRoom)]_vars

C30_Witness ==
    /\ H.pc = "done"
    /\ H.roomId = "r1"
    /\ H.response.status = 200
    /\ H.syncResult.created # <<>>
    /\ Within(H.db0, OtherRoom) # {}
    /\ Within(db, OtherRoom) = Within(H.db0, OtherRoom)

(***************************************************************************)
(* Properties of the table under concurrent requests, stated for StoreSpec  *)
(***************************************************************************)
RowsOf(rows, room, ch) == {r \in rows : r.room_id = room /\ r.character_id = ch}

\* a POST of invocation h for a key that has a record, with a name (the request is
\* valid), leaves one record of the key, holding the supplied name and the supplied
\* data ({} for a request without data), and leaves the other records
PostReplaces(h, ch, name, data) ==
    charactersHandler(h, "POST", TheRoom, ch, name, data) /\ name # Null
    /\ RowsOf(db, TheRoom, ch) # {}
    => /\ \E r \in db' :
            /\ RowsOf(db', TheRoom, ch) = {r}
            /\ r.name = name
            /\ r.equipment_data = IF data # Null THEN data ELSE "{}"
       /\ db' \ RowsOf(db', TheRoom, ch) = db \ RowsOf(db, TheRoom, ch)

\* C31: after any interleaving of POST, PUT, DELETE and sync requests the remote
\* store holds at most one record per (roomId, characterId); a POST for an existing
\* key replaces that record's name and data with the supplied values and never
\* creates a second record.
C31_OneRecordPerKey ==
    /\ [](\A r, q \in db : r.room_id = q.room_id /\ r.character_id = q.character_id => r = q)
    /\ [][\A h \in Handlers, ch \in ClientChars, name \in {"n1", Null},
             data \in {"d1", "d2", Null} : PostReplaces(h, ch, name, data)]_vars

\* a POST has replaced the record a sync call created while that call is still running
C31_Witness ==
    /\ hs[2].pc = "done"
    /\ hs[2].response.status = 201
    /\ RowsOf(hs[2].db0, TheRoom, "c1") # {}
    /\ RowsOf(db, TheRoom, "c1") # RowsOf(hs[2].db0, TheRoom, "c1")
    /\ hs[1].pc = "final"
    /\ hs[1].syncResult.created # <<>>

(***************************************************************************)
(* Properties of PUT and DELETE /api/characters, stated for RoomSpec       *)
(***************************************************************************)
\* a PUT for a key that has a record changes the supplied fields of it, stamps it
\* with NOW() and leaves the other records; for a key without record it is answered
\* 404 and the table stays
PutMerges(room, ch, name, data) ==
    charactersHandler(1, "PUT", room, ch, name, data) =>
      IF RowsOf(db, room, ch) # {}
      THEN LET old == TheRow(db, room, ch)
           IN /\ hs'[1].response.status = 200
              /\ \E r \in db' :
                   /\ RowsOf(db', room, ch) = {r}
                   /\ r.name = IF name # Null THEN name ELSE old.name
                   /\ r.equipment_data = IF data # Null THEN data ELSE old.equipment_data
                   /\ r.updated_at = now
                   /\ r.updated_at > old.updated_at
              /\ db' \ RowsOf(db', room, ch) = db \ RowsOf(db, room, ch)
      ELSE hs'[1].response.status = 404 /\ db' = db

\* a DELETE for a key without record is answered 404 and the table stays
DeleteMissing(room, ch) ==
    charactersHandler(1, "DELETE", room, ch, Null, Null) /\ RowsOf(db, room, ch) = {}
    => hs'[1].response.status = 404 /\ db' = db

\* C32: PUT changes only the supplied fields of an existing record (name only, data
\* only, or both) and refreshes its timestamp; for a (roomId, characterId) with no
\* record it answers not-found and creates nothing, and DELETE for a missing record
\* answers not-found and changes nothing.
C32_PutMergesDeleteMissing ==
    [][\A room \in ServedRooms, ch \in ClientChars :
         /\ \A name \in {"n1", Null}, data \in {"d1", "d2", Null} :
              PutMerges(room, ch, name, data)
         /\ DeleteMissing(room, ch)]_vars

\* a PUT with a name and no data has been answered: the name changed, the data stayed
C32_Witness ==
    /\ H.pc = "done"
    /\ H.response.status = 200
    /\ "id" \in DOMAIN H.response
    /\ H.response.name # TheRow(H.db0, H.roomId, H.response.id).name
    /\ H.response.data = TheRow(H.db0, H.roomId, H.response.id).equipment_data
    /\ TheRow(db, H.roomId, H.response.id).name = H.response.name

(***************************************************************************)
(* Property of the disposition report, stated for SyncSpec                 *)
(***************************************************************************)
\* how often ch is named by the list (conflicts name it as characterId)
Occurrences(list, ch) == Cardinality({k \in 1..Len(list) : list[k] = ch})

ConflictOccurrences(list, ch) ==
    Cardinality({k \in 1..Len(list) : list[k].characterId = ch})

Listed(res, ch) ==
    Occurrences(res.created, ch) + Occurrences(res.updated, ch)
      + ConflictOccurrences(res.conflicts, ch) + Occurrences(res.synced, ch)

\* C33: on every successful reconciliation call, each characterId of the local
\* mapping appears in exactly one of the four lists created, updated, conflicts,
\* synced, exactly once, and no id outside the local mapping appears in any list.
C33_EachIdListedOnce ==
    Answered(200) =>
      /\ \A ch \in LocalIds(H) : Listed(H.response.syncResult, ch) = 1
      /\ \A ch \in Chars \ LocalIds(H) : Listed(H.response.syncResult, ch) = 0

\* a call answered 200 for two characters: one is a conflict, the other was created,
\* and the two lists name one of them each
C33_Witness ==
    /\ Answered(200)
    /\ Cardinality(LocalIds(H)) = 2
    /\ Len(H.response.syncResult.conflicts) = 1
    /\ Len(H.response.syncResult.created) = 1

(***************************************************************************)
(* Property of concurrent reconciliation calls, stated for StoreSpec       *)
(***************************************************************************)
\* invocation h serves a sync call that carries ch and found no record of ch at its
\* initial read
CreatesUnseen(h, ch) ==
    /\ hs[h].pc \in {"loop", "final", "done"}
    /\ ch \in LocalIds(hs[h])
    /\ ~HasChar(hs[h].dbCharacters, ch)

\* C34: when two reconciliation calls for the same room run concurrently and both
\* carry a character that has no remote record, both calls complete with a
\* disposition report: the insert of the second one never fails because the first
\* created the record between the second call's initial read and its write.
C34_ConcurrentCreatesComplete ==
    \A h, g \in Handlers, ch \in ClientChars :
      h # g /\ CreatesUnseen(h, ch) /\ CreatesUnseen(g, ch) /\ hs[h].pc = "done"
        => hs[h].response.status = 200

(***************************************************************************)
(* Property of deleted characters, stated for DeleteSpec                   *)
(***************************************************************************)
\* client 1 has deleted ch with deleteCharacter and nobody has saved ch since (the
\* step is not a saveCharacter call of client 1; client 2 never saves)
StaysDeleted(ch) == ch \in cl[1].deleted /\ ch \in cl'[1].deleted

\* C35: a character that was deleted with deleteCharacter stays deleted: no later
\* load or reconciliation by any client, including one that still holds the
\* character in its local cache or one whose remote delete did not go through,
\* makes it reappear in the remote store or in the deleting client's local cache.
C35_DeletedStaysDeleted ==
    [][\A ch \in ClientChars :
         StaysDeleted(ch) =>
           /\ ~Cached(cl[1].local, ch) => ~Cached(cl'[1].local, ch)
           /\ ~HasRow(db, TheRoom, ch) => ~HasRow(db', TheRoom, ch)]_vars

(***************************************************************************)
(* Property of the rendered inventory cards, stated for Spec               *)
(***************************************************************************)
\* C36: the item an inventory card's action (equip, unequip, edit, drop, sell)
\* operates on is the item shown on that card: for every inventory content and
\* every search term, the (category, index) attached to a rendered card designates
\* in the category's stored sequence the item with the card's id.
C36_CardDesignatesItsItem ==
    \A card \in Cards :
        /\ card.index + 1 \in DOMAIN inventory[card.category]
        /\ inventory[card.category][card.index + 1].id = card.id


(***************************************************************************)
(* Properties of the carried value, stated for GoldSpec                     *)
(***************************************************************************)
\* the carried gold in coins
carriedValue(g) == g.coins + 10 * g.pouches + 100 * g.chest

\* C37: sellItem with a gold amount g >= 0 never lowers the carried value
\* coins + 10*pouches + 100*chest, for every currency state within the bounds
\* coins 0..10, pouches 0..10, chest 0..1.
C37_SaleNeverLowersValue ==
    [][\A card \in Cards, answer \in GoldAnswers :
         sellAccepted(answer) /\ sellItem(card.category, card.index, answer) =>
           carriedValue(gold') >= carriedValue(gold)]_vars


\* C38: in every state reachable through any sequence of gold operations,
\* including decreases of pouches or chest after a cap was reached, coins = 10
\* only while pouches = 10 and pouches = 10 only while chest = 1 (a full tier is
\* left unconverted only when the next tier is full).
C38_FullTierOnlyUnderFullTier ==
    /\ gold.coins = 10 => gold.pouches = 10
    /\ gold.pouches = 10 => gold.chest = 1

====
